---- MODULE Spec2Model ----
(***************************************************************************)
(* Session control plane of the voice-agent orchestrator: the FastAPI     *)
(* handlers of backend/orchestrator/main.py (start_session, heartbeat,     *)
(* end_session, livekit_webhook, cleanup_session), the credit service of   *)
(* backend/common/services/credit_service.py, the spawn job of             *)
(* backend/orchestrator/tasks.py and the agent of                          *)
(* backend/agent/voice_assistant.py, over PostgreSQL and Redis.            *)
(*                                                                         *)
(* The handlers are coroutines on one asyncio event loop: a handler runs   *)
(* without interruption by another handler until it reaches an await that  *)
(* suspends (a database statement, asyncio.sleep).  The Redis client of    *)
(* main.py and credit_service.py is the synchronous one, so Redis calls do *)
(* not suspend.  `running` is the handler that holds the loop.  The spawn  *)
(* job, the agent and the clock are other processes and interleave with    *)
(* every step.                                                             *)
(***************************************************************************)
EXTENDS Integers, Sequences, FiniteSets, TLC

VARIABLES
    now,              \* time.time(), seconds
    credit_balance,   \* students.credit_balance
    transactions,     \* credit_transactions: number of rows per <<session, minute>>
    minutes_billed,   \* simulation_attempts.minutes_billed
    billed,           \* Redis keys credit:billed:{session}:{minute}
    session,          \* Redis hashes session:{id}
    config,           \* Redis hashes session:{id}:config
    ready,            \* Redis set session:ready
    starting,         \* Redis set session:starting
    agentKeys,        \* Redis keys agent:{id}:pid / logfile / logs / health
    userMap,          \* Redis strings session:user:{user}
    queue,            \* spawn_voice_agent jobs queued in Celery
    proc,             \* the agent process of each session
    spawn,            \* the spawn_voice_agent job of each session, once taken by a worker
    retries,          \* self.request.retries of the session's spawn job
    revoked,          \* sessions whose spawn job's task id has been revoked
    pidOf,            \* the operating system's pid of each session's agent process
    task,             \* the request handlers (coroutines) of the orchestrator
    running,          \* the handler that holds the event loop, 0 when it is free
    pendingTerm,      \* terminate_session_insufficient_credits tasks created, not yet started
    response,         \* the last response a handler returned
    ended,            \* the sessions for which end_session has answered success
    initial_balance,  \* credit_balance at the start (for the accounting properties)
    successes,        \* number of deduct_minute calls that returned SUCCESS, per student
    requests,         \* number of HTTP requests received so far
    beat,             \* the periodic tasks health_check_agents and cleanup_stale_agents
    logs,             \* Redis lists agent:{id}:logs, line by line
    reader,           \* continuous_log_reader: its position, and the lines it has read
                      \* from the agent's stdout (their number, and the lines)
    log_check_offset, \* log_check_offset of each session's spawn job
    others,           \* the pids of the agents of a session that run beside proc[s]
    agent             \* the agent's disconnect handlers: cleanup_triggered, task.cancel() calls

vars == <<now, credit_balance, transactions, minutes_billed, billed, session, config,
          ready, starting, agentKeys, userMap, queue, proc, spawn, retries, revoked,
          pidOf, task, running,
          pendingTerm, response, ended, initial_balance, successes, requests,
          beat, logs, reader, log_check_offset, others, agent>>

dbVars == <<credit_balance, transactions, minutes_billed>>
redisSessionVars == <<session, config, ready, starting, agentKeys, userMap>>
workerVars == <<queue, proc, spawn, retries, revoked>>
histVars == <<initial_balance, successes>>
beatVars == <<beat>>
logVars == <<logs, reader, log_check_offset>>

----------------------------------------------------------------------------
(* Bounds *)

MaxBalance == 3       \* initial balances are 0..MaxBalance
MaxMinute == 2        \* the clock stops in minute MaxMinute
MaxTasks == 2         \* request handlers in flight at once
MaxRequests == 3      \* HTTP requests the orchestrator receives in a run
MaxPid == 2           \* the operating system hands out the pids 1..MaxPid
BootTime == 20000     \* time.time() when the run begins (the variable now counts from it)
MaxLines == 101       \* lines an agent writes to its stdout
MaxEvents == 4        \* disconnect events LiveKit delivers to an agent

----------------------------------------------------------------------------
(* Identifiers *)

\* Strings are sequences of characters, so that str.startswith is computed.
TOK_SESSION == <<"s", "e", "s", "s", "i", "o", "n", "_", "1">>
TOK_ABC == <<"t", "o", "k", "_", "a", "b", "c">>
SESSION_PREFIX == <<"s", "e", "s", "s", "i", "o", "n", "_">>
NoSid == <<>>

\* The correlation tokens that have a simulation_attempts row.
Sessions == {TOK_SESSION, TOK_ABC}
Students == {"student_1"}
Users == {"alice"}

\* simulation_attempts.student_id by "correlationToken"
StudentOf(s) == "student_1"
\* SessionStartRequest.userName of the requests for a session
UserOf(s) == "alice"

Pids == 1..MaxPid
Tasks == 1..MaxTasks
Minutes == 0..(MaxMinute + 1)
ClockOffsets == {0, 59}
ClockValues == {60 * k + o : k \in 0..MaxMinute, o \in ClockOffsets}

StartsWith(str, prefix) ==
    /\ Len(str) >= Len(prefix)
    /\ SubSeq(str, 1, Len(prefix)) = prefix

----------------------------------------------------------------------------
(* Records *)

\* (expireAt: the time at which Redis deletes the key, -1 for a key without a TTL)
NoSession == [exists |-> FALSE, status |-> "none", agentPid |-> 0, error |-> "none",
              createdAt |-> -1, lastActive |-> -1, expireAt |-> -1,
              celeryTaskId |-> FALSE, userId |-> FALSE,
              conversationStartTime |-> -1, conversationDuration |-> -1,
              conversationDurationMinutes |-> -1]

\* locals of reconcile_session
NoRec == [called |-> FALSE, returned |-> FALSE, last_billed |-> 0, total_minutes |-> 0,
          minute |-> 0, minutes_billed_now |-> 0, failed_minutes |-> {},
          insufficient |-> FALSE]

\* cleanup_details of cleanup_session
NoDetails == [called |-> FALSE, celery_task_revoked |-> FALSE, process_killed |-> FALSE,
              self_terminated |-> FALSE, redis_cleaned |-> FALSE, reconciled |-> FALSE,
              errors |-> {}]

\* the webhook request: the event and the X-LiveKit-Signature header (the room is sid)
NoHook == [event |-> "none", x_livekit_signature |-> <<>>]

\* what a direct call of deduct_minute found when it was made (kept to compare the
\* state at its return with): the student's balance, the debit rows of the minute,
\* minutes_billed, the idempotency key, and whether the call runs alone
NoBefore == [balance |-> 0, rows |-> 0, minutes_billed |-> 0, marked |-> FALSE,
             requests |-> 0, alone |-> FALSE]

\* (termed: the sessions whose agent's process group got the handler's SIGTERM)
IdleTask == [kind |-> "idle", pc |-> "idle", sid |-> NoSid, minute_number |-> 0,
             pid |-> 0, before |-> NoBefore, termed |-> {},
             result |-> "none", has_credits |-> FALSE, found |-> FALSE,
             session_data |-> NoSession, rec |-> NoRec, cln |-> NoDetails,
             hook |-> NoHook]

\* the periodic task that runs: its position in the loop over session_ids (ids are
\* the ids still to visit), its locals session_id, session_data and pid, and the
\* sessions it has found dead (dead_count); termed are the sessions whose agent's
\* process group got the task's SIGTERM
IdleBeat == [kind |-> "idle", pc |-> "idle", now |-> 0, ids |-> {}, sid |-> NoSid,
             session_data |-> NoSession, pid |-> 0, dead |-> {}, termed |-> {}]

\* voice_assistant.py, main: the local cleanup_triggered, the number of disconnect
\* events delivered and of task.cancel() calls made so far, and the handlers that
\* wait in `await task.cancel()` (each with the block it called from)
\* and heartbeat_task: the time of the last answer with status ok it has got, and the
\* number of the request that this answer belongs to
NoHandlers == [cleanup_triggered |-> FALSE, events |-> 0, cancels |-> 0,
               awaiting |-> <<>>, last_ok |-> -1, answered |-> 0]

NoResponse == [kind |-> "none", sid |-> NoSid, status |-> "none", found |-> FALSE,
               details |-> NoDetails, hook |-> NoHook]

\* the agent process of session s is there
Alive(s) == proc[s] \in {"started", "connected", "joined", "stopping"}

\* the sessions whose agent process runs under the pid
Holders(pid) == {s \in Sessions : Alive(s) /\ pidOf[s] = pid}

InFlight(t) == task[t].pc # "idle"

\* a new handler takes the first free slot (the slots are interchangeable)
FreeSlot(t) ==
    /\ task[t].pc = "idle"
    /\ \A u \in Tasks : u < t => task[u].pc # "idle"

\* a handler resumes only when no other handler holds the loop
Runnable(t) == running \in {0, t}

\* the record of a new handler for session s
NewTask(kind, s) == [IdleTask EXCEPT !.kind = kind, !.sid = s]

\* the response of a handler whose record is tk
ResponseOf(tk, status) ==
    [kind |-> tk.kind, sid |-> tk.sid, status |-> status, found |-> tk.found,
     details |-> tk.cln, hook |-> tk.hook]

\* the handler in slot t returns: the slot and the loop are free again
Finish(t, tk, status) ==
    /\ task' = [task EXCEPT ![t] = IdleTask]
    /\ response' = ResponseOf(tk, status)
    /\ ended' = IF tk.kind = "end" /\ status = "200" THEN ended \cup {tk.sid} ELSE ended
    /\ running' = 0

\* the handler in slot t goes on as tk: it keeps the loop unless it awaits
Continue(t, tk, suspends) ==
    /\ task' = [task EXCEPT ![t] = tk]
    /\ running' = IF suspends THEN 0 ELSE t
    /\ UNCHANGED <<response, ended>>

----------------------------------------------------------------------------
(* Initial state: empty Redis, no debit yet *)

Init ==
    /\ now = 0
    /\ credit_balance \in [Students -> 0..MaxBalance]
    /\ initial_balance = credit_balance
    /\ transactions = [s \in Sessions |-> [m \in Minutes |-> 0]]
    /\ minutes_billed = [s \in Sessions |-> 0]
    /\ billed = {}
    /\ session = [s \in Sessions |-> NoSession]
    /\ config = {}
    /\ ready = {}
    /\ starting = {}
    /\ agentKeys = [s \in Sessions |-> {}]
    /\ userMap = [u \in Users |-> NoSid]
    /\ queue = {}
    /\ proc = [s \in Sessions |-> "none"]
    /\ spawn = [s \in Sessions |-> "none"]
    /\ retries = [s \in Sessions |-> 0]
    /\ revoked = {}
    /\ pidOf = [s \in Sessions |-> 0]
    /\ task = [t \in Tasks |-> IdleTask]
    /\ running = 0
    /\ pendingTerm = [s \in Sessions |-> 0]
    /\ response = NoResponse
    /\ ended = {}
    /\ successes = [st \in Students |-> 0]
    /\ requests = 0
    /\ beat = IdleBeat
    /\ logs = [s \in Sessions |-> <<>>]
    /\ reader = [s \in Sessions |-> [pc |-> "idle", lines |-> 0, stdout |-> <<>>]]
    /\ log_check_offset = [s \in Sessions |-> 0]
    /\ others = [s \in Sessions |-> {}]
    /\ agent = [s \in Sessions |-> NoHandlers]

\* the clock advances.  The clock is read only relative to conversationStartTime, by
\* heartbeat (sent by the agent) and by the agent when it exits, so time is followed
\* while the agent of a started conversation lives.  A spawn job ends within
\* BOT_STARTUP_TIMEOUT = 30 seconds of its launch, less than a step of this clock, so
\* the timestamps the job writes (createdAt, lastActive) are those of its launch
Tick ==
    /\ \E s \in Sessions : session[s].conversationStartTime # -1 /\ Alive(s)
    /\ \A s \in Sessions : spawn[s] = "none"
    /\ \E t \in ClockValues : t > now /\ now' = t
    /\ UNCHANGED <<beatVars, logVars, pidOf, others, agent, dbVars, billed,
                   redisSessionVars,
                   workerVars, task, running,
                   pendingTerm, response, ended, histVars, requests>>

----------------------------------------------------------------------------
(* CreditService.deduct_minute *)

\* lines 165-176: the idempotency check when deduct_minute is called; a miss
\* goes on to get_student_id and the transaction, which suspend
CallDeduct(tk, minute_number) ==
    IF <<tk.sid, minute_number>> \in billed
    THEN [tk EXCEPT !.pc = "d_ret", !.minute_number = minute_number,
                    !.result = "already_billed"]
    ELSE [tk EXCEPT !.pc = "d_tx", !.minute_number = minute_number, !.result = "none"]

Suspended(tk) == tk.pc = "d_tx"

\* a balance check that lets a balance of 0 through
SufficientCredits_NoCheckAtZero(current_balance) == current_balance >= 0

\* line 215, negated: the balance covers the minute
SufficientCredits(current_balance) == current_balance >= 1

\* a deduct_minute that writes the idempotency key before it looks at the balance
DeductTransaction_MarkBeforeCheck(t) ==
    LET s == task[t].sid
        m == task[t].minute_number
        student_id == StudentOf(s)
        current_balance == credit_balance[student_id]
    IN
    /\ task[t].pc = "d_tx"
    /\ IF ~SufficientCredits(current_balance)
       THEN /\ task' = [task EXCEPT ![t].pc = "d_ret", ![t].result = "insufficient_credits"]
            /\ UNCHANGED dbVars
       ELSE /\ credit_balance' = [credit_balance EXCEPT ![student_id] = current_balance - 1]
            /\ transactions' = [transactions EXCEPT ![s][m] = @ + 1]
            /\ minutes_billed' = [minutes_billed EXCEPT ![s] = m]
            /\ task' = [task EXCEPT ![t].pc = "d_mark"]
    /\ billed' = billed \cup {<<s, m>>}
    /\ UNCHANGED <<now, beatVars, logVars,
                   pidOf, others, agent, redisSessionVars, workerVars, running, pendingTerm,
                   response, ended, histVars, requests>>

\* lines 191-285: the transaction under the row lock of the student
\* (SELECT ... FOR UPDATE serialises it against every other debit of the student)
DeductTransaction(t) ==
    LET s == task[t].sid
        m == task[t].minute_number
        student_id == StudentOf(s)
        current_balance == credit_balance[student_id]
    IN
    /\ task[t].pc = "d_tx"
    /\ IF ~SufficientCredits(current_balance)
       THEN /\ task' = [task EXCEPT ![t].pc = "d_ret", ![t].result = "insufficient_credits"]
            /\ UNCHANGED dbVars
       ELSE /\ credit_balance' = [credit_balance EXCEPT ![student_id] = current_balance - 1]
            /\ transactions' = [transactions EXCEPT ![s][m] = @ + 1]
            /\ minutes_billed' = [minutes_billed EXCEPT ![s] = m]
            /\ task' = [task EXCEPT ![t].pc = "d_mark"]
    /\ UNCHANGED <<now, beatVars, logVars,
                   pidOf, others, agent, billed, redisSessionVars, workerVars, running,
                   pendingTerm,
                   response, ended, histVars, requests>>

\* lines 191-285 and 299-309: a statement of the transaction raises (the database
\* fails); the transaction block rolls back and the except clause reports ERROR
DeductRollback(t) ==
    /\ task[t].pc = "d_tx"
    /\ task' = [task EXCEPT ![t].pc = "d_ret", ![t].result = "error"]
    /\ UNCHANGED <<now, beatVars, logVars, pidOf, others, agent, dbVars, billed,
                   redisSessionVars, workerVars, running, pendingTerm, response, ended,
                   histVars, requests>>

\* lines 287-309: after the commit, setex of the idempotency key; a Redis error
\* raised by setex is caught by the except clause and reported as ERROR
DeductMark(t) ==
    LET s == task[t].sid
        m == task[t].minute_number
    IN
    /\ task[t].pc = "d_mark"
    /\ Runnable(t)
    /\ \E setex_ok \in BOOLEAN :
        IF setex_ok
        THEN /\ billed' = billed \cup {<<s, m>>}
             /\ task' = [task EXCEPT ![t].pc = "d_ret", ![t].result = "success"]
             /\ successes' = [successes EXCEPT ![StudentOf(s)] = @ + 1]
        ELSE /\ task' = [task EXCEPT ![t].pc = "d_ret", ![t].result = "error"]
             /\ UNCHANGED <<billed, successes>>
    /\ running' = t
    /\ UNCHANGED <<now, beatVars, logVars,
                   pidOf, others, agent, dbVars, redisSessionVars, workerVars,
                   pendingTerm, response,
                   ended, initial_balance, requests>>

----------------------------------------------------------------------------
(* heartbeat *)

\* a minute count that rounds the elapsed seconds up
CurrentMinute_RoundedUp(start_time) == (now - start_time + 59) \div 60

\* lines 790-792: current_minute = elapsed_seconds // 60
CurrentMinute(start_time) == (now - start_time) \div 60

\* lines 756-814: up to the call of deduct_minute.  Heartbeats are sent by the
\* agent's heartbeat_task while it runs (voice_assistant.py lines 188-292); none is
\* sent while a termination of the session is pending (the cap of pendingTerm)
HeartbeatRequest(t, s) ==
    LET session_data == session[s]
        tk == [NewTask("heartbeat", s) EXCEPT !.found = session_data.exists]
    IN
    /\ FreeSlot(t)
    /\ running = 0
    /\ proc[s] \in {"connected", "joined"}
    /\ pendingTerm[s] = 0
    /\ IF ~session_data.exists
       THEN Finish(t, tk, "404")
       ELSE IF session_data.conversationStartTime = -1
       THEN Finish(t, tk, "error")
       ELSE IF CurrentMinute(session_data.conversationStartTime) = 0
       THEN Finish(t, tk, "ok")
       ELSE LET called == CallDeduct(tk, CurrentMinute(session_data.conversationStartTime))
            IN Continue(t, called, Suspended(called))
    /\ UNCHANGED <<now, beatVars, logVars,
                   pidOf, others, agent, dbVars, billed, redisSessionVars, workerVars,
                   pendingTerm,
                   histVars>>
    /\ requests < MaxRequests
    /\ requests' = requests + 1

\* a heartbeat that also answers stop when billing failed with an error
HeartbeatStatus_StopOnError(result) ==
    IF result \in {"success", "already_billed"} THEN "ok" ELSE "stop"

\* lines 817-865: the status of the response by the result of deduct_minute
HeartbeatStatus(result) ==
    IF result \in {"success", "already_billed"} THEN "ok"
    ELSE IF result = "insufficient_credits" THEN "stop"
    ELSE "error"

\* lines 817-865: the response; on insufficient credits asyncio.create_task of
\* terminate_session_insufficient_credits (line 847)
HeartbeatReturn(t) ==
    /\ task[t].kind = "heartbeat"
    /\ task[t].pc = "d_ret"
    /\ Runnable(t)
    /\ Finish(t, task[t], HeartbeatStatus(task[t].result))
    /\ pendingTerm' = IF task[t].result = "insufficient_credits"
                      THEN [pendingTerm EXCEPT ![task[t].sid] = @ + 1]
                      ELSE pendingTerm
    /\ UNCHANGED <<now, beatVars, logVars,
                   pidOf, others, agent, dbVars, billed, redisSessionVars, workerVars,
                   histVars,
                   requests>>

----------------------------------------------------------------------------
(* start_session *)

\* lines 478-522: the session id, get_student_id_from_session, then the await of
\* check_sufficient_credits
StartRequest(t, s) ==
    /\ FreeSlot(t)
    /\ running = 0
    /\ Continue(t, [NewTask("start", s) EXCEPT !.pc = "ss_credit"], TRUE)
    /\ UNCHANGED <<now, beatVars, logVars,
                   pidOf, others, agent, dbVars, billed, redisSessionVars, workerVars,
                   pendingTerm,
                   histVars>>
    /\ requests < MaxRequests
    /\ requests' = requests + 1

\* a check that lets a balance one short of the requirement pass
HasCredits_OneShort(balance, required_credits) == balance >= required_credits - 1

\* credit_service.py line 137: has_credits = credit_balance >= required_credits
HasCredits(balance, required_credits) == balance >= required_credits

\* CreditService.check_sufficient_credits(student_id, required_credits=1),
\* credit_service.py lines 123-139
StartCheckCredits(t) ==
    /\ task[t].pc = "ss_credit"
    /\ task' = [task EXCEPT ![t].pc = "ss_bill",
                            ![t].has_credits =
                                HasCredits(credit_balance[StudentOf(task[t].sid)], 1)]
    /\ UNCHANGED <<now, beatVars, logVars,
                   pidOf, others, agent, dbVars, billed, redisSessionVars, workerVars,
                   running,
                   pendingTerm,
                   response, ended, histVars, requests>>

\* a start_session that goes on to the token without charging minute 0
StartBill_NoCharge(t) ==
    /\ task[t].pc = "ss_bill"
    /\ Runnable(t)
    /\ IF task[t].has_credits
       THEN Continue(t, [task[t] EXCEPT !.pc = "d_ret", !.minute_number = 0,
                                        !.result = "success"], FALSE)
       ELSE Finish(t, task[t], "402")
    /\ UNCHANGED <<now, beatVars, logVars,
                   pidOf, others, agent, dbVars, billed, redisSessionVars, workerVars,
                   pendingTerm,
                   histVars, requests>>

\* lines 524-536: 402, or the call of deduct_minute(session_id, 0)
StartBill(t) ==
    /\ task[t].pc = "ss_bill"
    /\ Runnable(t)
    /\ IF task[t].has_credits
       THEN LET called == CallDeduct(task[t], 0)
            IN Continue(t, called, Suspended(called))
       ELSE Finish(t, task[t], "402")
    /\ UNCHANGED <<now, beatVars, logVars,
                   pidOf, others, agent, dbVars, billed, redisSessionVars, workerVars,
                   pendingTerm,
                   histVars, requests>>

\* lines 538-603: 500 unless SUCCESS; generate_livekit_token, 500 when it raises;
\* the session config in Redis
StartConfig(t) ==
    /\ task[t].kind = "start"
    /\ task[t].pc = "d_ret"
    /\ Runnable(t)
    /\ IF task[t].result = "success"
       THEN \E minted \in BOOLEAN :
               IF minted
               THEN /\ config' = config \cup {task[t].sid}
                    /\ Continue(t, [task[t] EXCEPT !.pc = "ss_enqueue"], FALSE)
               ELSE /\ Finish(t, task[t], "500")
                    /\ UNCHANGED config
       ELSE /\ Finish(t, task[t], "500")
            /\ UNCHANGED config
    /\ UNCHANGED <<now, beatVars, logVars,
                   pidOf, others, agent, dbVars, billed, session, ready, starting,
                   agentKeys, userMap,
                   workerVars, pendingTerm,
                   histVars, requests>>

\* lines 605-618: spawn_voice_agent.delay, 503 when it raises
StartEnqueue(t) ==
    /\ task[t].pc = "ss_enqueue"
    /\ Runnable(t)
    /\ \E queued \in BOOLEAN :
          IF queued
          THEN /\ queue' = queue \cup {task[t].sid}
               /\ retries' = [retries EXCEPT ![task[t].sid] = 0]
               /\ revoked' = revoked \ {task[t].sid}
               /\ Continue(t, [task[t] EXCEPT !.pc = "ss_store"], FALSE)
          ELSE /\ Finish(t, task[t], "503")
               /\ UNCHANGED <<queue, retries, revoked>>
    /\ UNCHANGED <<now, beatVars, logVars,
                   pidOf, others, agent, dbVars, billed, redisSessionVars, proc, spawn,
                   pendingTerm,
                   histVars, requests>>

\* main.py line 633: redis_client.expire(session_key, 14400)
SESSION_TTL == 14400

\* lines 620-655: the session hash with its TTL, then the response
StartStore(t) ==
    /\ task[t].pc = "ss_store"
    /\ Runnable(t)
    /\ session' = [session EXCEPT ![task[t].sid] =
                      [@ EXCEPT !.exists = TRUE, !.status = "starting",
                                !.celeryTaskId = TRUE, !.expireAt = now + SESSION_TTL]]
    /\ Finish(t, task[t], "200")
    /\ UNCHANGED <<now, beatVars, logVars, pidOf, others, agent, dbVars, billed, config,
                   ready,
                   starting, agentKeys, userMap, workerVars, pendingTerm,
                   histVars, requests>>

----------------------------------------------------------------------------
(* CreditService.reconcile_session *)

\* lines 333-352: SELECT minutes_billed of the attempt
ReconcileRead(t) ==
    /\ task[t].pc = "r_read"
    /\ task' = [task EXCEPT ![t].pc = "r_loop",
                            ![t].rec.last_billed = minutes_billed[task[t].sid],
                            ![t].rec.minute = minutes_billed[task[t].sid] + 1]
    /\ UNCHANGED <<now, beatVars, logVars,
                   pidOf, others, agent, dbVars, billed, redisSessionVars, workerVars,
                   running,
                   pendingTerm,
                   response, ended, histVars, requests>>

\* lines 363-364: the head of the loop calls deduct_minute for the next minute;
\* lines 380-403 after the loop: the result, which main.py lines 292-303 record
\* in cleanup_details before cleanup_session goes on
LoopHead(tk) ==
    IF tk.rec.minute <= tk.rec.total_minutes /\ ~tk.rec.insufficient
    THEN CallDeduct(tk, tk.rec.minute)
    ELSE [tk EXCEPT !.pc = "c_kill", !.rec.returned = TRUE,
                    !.cln.reconciled = (tk.rec.failed_minutes = {}),
                    !.cln.errors = IF tk.rec.failed_minutes # {}
                                   THEN @ \cup {"Billing reconciliation incomplete"}
                                   ELSE @]

\* lines 366-378: the result of deduct_minute for this minute
ReconcileStep(r, result) ==
    IF result \in {"success", "already_billed"}
    THEN [r EXCEPT !.minutes_billed_now = @ + 1, !.minute = @ + 1]
    ELSE IF result = "insufficient_credits"
    THEN [r EXCEPT !.failed_minutes = @ \cup {r.minute}, !.insufficient = TRUE]
    ELSE [r EXCEPT !.failed_minutes = @ \cup {r.minute}, !.minute = @ + 1]

\* the coroutine resumes after the SELECT and enters the loop
ReconcileStart(t) ==
    /\ task[t].pc = "r_loop"
    /\ Runnable(t)
    /\ LET next == LoopHead(task[t]) IN Continue(t, next, Suspended(next))
    /\ UNCHANGED <<now, beatVars, logVars,
                   pidOf, others, agent, dbVars, billed, redisSessionVars, workerVars,
                   pendingTerm,
                   histVars, requests>>

\* deduct_minute returned into the loop
ReconcileReturn(t) ==
    /\ task[t].kind \in {"end", "webhook", "terminate"}
    /\ task[t].pc = "d_ret"
    /\ Runnable(t)
    /\ LET next == LoopHead([task[t] EXCEPT !.rec = ReconcileStep(@, task[t].result)])
       IN Continue(t, next, Suspended(next))
    /\ UNCHANGED <<now, beatVars, logVars,
                   pidOf, others, agent, dbVars, billed, redisSessionVars, workerVars,
                   pendingTerm,
                   histVars, requests>>

----------------------------------------------------------------------------
(* cleanup_session *)

\* an end_session that answers 500 when cleanup_details carries errors
ReturnStatus_ErrorsFail(kind, cleanup_details) ==
    IF kind = "terminate" THEN "returned"
    ELSE IF cleanup_details.errors # {} THEN "500" ELSE "200"

\* what cleanup_session returns to its caller: end_session lines 708-722,
\* livekit_webhook lines 949-954, terminate_session_insufficient_credits lines 220-223
ReturnStatus(kind, cleanup_details) ==
    IF kind = "terminate" THEN "returned" ELSE "200"

\* lines 252-290: hgetall, "Session not found", the duration, the call of reconcile_session
CleanupEntry(t) ==
    LET s == task[t].sid
        session_data == session[s]
        durationMinutes == IF session_data.conversationDurationMinutes > 0
                           THEN session_data.conversationDurationMinutes ELSE 0
        entered == [task[t] EXCEPT !.cln.called = TRUE, !.session_data = session_data]
    IN
    /\ task[t].pc = "c_entry"
    /\ Runnable(t)
    /\ IF ~session_data.exists
       THEN LET tk == [entered EXCEPT !.cln.errors = {"Session not found"}]
            IN Finish(t, tk, ReturnStatus(tk.kind, tk.cln))
       ELSE IF durationMinutes > 0
       THEN Continue(t, [entered EXCEPT !.pc = "r_read", !.rec.called = TRUE,
                                        !.rec.total_minutes = durationMinutes], TRUE)
       ELSE Continue(t, [entered EXCEPT !.pc = "c_kill"], FALSE)
    /\ UNCHANGED <<now, beatVars, logVars,
                   pidOf, others, agent, dbVars, billed, redisSessionVars, workerVars,
                   pendingTerm,
                   histVars, requests>>

\* lines 313-353: revoke the Celery task, find the pid, sleep 3 seconds
CleanupKill(t) ==
    LET s == task[t].sid
        session_data == task[t].session_data
        pid_str == IF session_data.agentPid # 0 THEN session_data.agentPid
                   ELSE IF "pid" \in agentKeys[s] THEN pidOf[s]
                   ELSE 0
        tk == [task[t] EXCEPT !.cln.celery_task_revoked = session_data.celeryTaskId,
                              !.pid = pid_str]
    IN
    /\ task[t].pc = "c_kill"
    /\ Runnable(t)
    /\ queue' = IF session_data.celeryTaskId THEN queue \ {s} ELSE queue
    /\ revoked' = IF session_data.celeryTaskId THEN revoked \cup {s} ELSE revoked
    /\ IF pid_str # 0
       THEN Continue(t, [tk EXCEPT !.pc = "c_sleep3"], TRUE)
       ELSE Continue(t, [tk EXCEPT !.pc = "c_redis"], FALSE)
    /\ UNCHANGED <<now, beatVars, logVars,
                   pidOf, others, agent, dbVars, billed, redisSessionVars, proc, spawn,
                   retries,
                   pendingTerm,
                   histVars, requests>>

\* what SIGTERM does to the agent: it dies, or it starts its shutdown
AfterSigterm(state) ==
    IF state \in {"started", "connected", "joined", "stopping"} THEN {"stopping", "dead"}
    ELSE {state}

\* lines 355-385: os.kill(pid, 0): no process has the pid: return at once; else
\* os.killpg(pid, SIGTERM) to the process group of that number, sleep 5 seconds
CleanupProbe(t) ==
    LET pid == task[t].pid IN
    /\ task[t].pc = "c_sleep3"
    /\ Runnable(t)
    /\ IF Holders(pid) = {}
       THEN /\ LET tk == [task[t] EXCEPT !.cln.process_killed = TRUE,
                                         !.cln.self_terminated = TRUE]
               IN Finish(t, tk, ReturnStatus(tk.kind, tk.cln))
            /\ UNCHANGED proc
       ELSE /\ \E s \in Holders(pid) : \E after \in AfterSigterm(proc[s]) :
                  proc' = [proc EXCEPT ![s] = after]
            /\ Continue(t, [task[t] EXCEPT !.pc = "c_sleep5", !.cln.process_killed = TRUE,
                                           !.termed = Holders(pid)],
                        TRUE)
    /\ UNCHANGED <<now, beatVars, logVars,
                   pidOf, others, agent, dbVars, billed, redisSessionVars, queue, spawn,
                   retries,
                   revoked, pendingTerm, histVars, requests>>

\* lines 387-393: os.kill(pid, 0), and os.killpg(pid, SIGKILL) when a process still
\* has the pid
CleanupForce(t) ==
    LET pid == task[t].pid IN
    /\ task[t].pc = "c_sleep5"
    /\ Runnable(t)
    /\ proc' = [s \in Sessions |-> IF s \in Holders(pid) THEN "dead" ELSE proc[s]]
    /\ Continue(t, [task[t] EXCEPT !.pc = "c_redis"], FALSE)
    /\ UNCHANGED <<now, beatVars, logVars,
                   pidOf, others, agent, dbVars, billed, redisSessionVars, queue, spawn,
                   retries,
                   revoked, pendingTerm, histVars, requests>>

\* lines 409-415: keys_to_delete
CleanupAgentKeys == {"pid", "logs", "health"}

\* lines 404-421: redis_client.delete of every key in keys_to_delete; the two sets
\* still hold the id when the last key is gone
CleanupRedis(t) ==
    LET s == task[t].sid
        user_id == task[t].session_data.userId
    IN
    /\ task[t].pc = "c_redis"
    /\ Runnable(t)
    /\ session' = [session EXCEPT ![s] = NoSession]
    /\ config' = config \ {s}
    /\ agentKeys' = [agentKeys EXCEPT ![s] = @ \ CleanupAgentKeys]
    /\ userMap' = IF user_id THEN [userMap EXCEPT ![UserOf(s)] = NoSid] ELSE userMap
    /\ Continue(t, [task[t] EXCEPT !.pc = "c_srem"], FALSE)
    /\ UNCHANGED <<now, beatVars, logVars,
                   pidOf, others, agent, dbVars, billed, ready, starting, workerVars,
                   pendingTerm,
                   histVars, requests>>

\* lines 423-436: srem from session:ready and session:starting, redis_cleaned, return
CleanupSets(t) ==
    LET s == task[t].sid
        tk == [task[t] EXCEPT !.cln.redis_cleaned = TRUE]
    IN
    /\ task[t].pc = "c_srem"
    /\ Runnable(t)
    /\ ready' = ready \ {s}
    /\ starting' = starting \ {s}
    /\ Finish(t, tk, ReturnStatus(tk.kind, tk.cln))
    /\ UNCHANGED <<now, beatVars, logVars,
                   pidOf, others, agent, dbVars, billed, session, config, agentKeys,
                   userMap, workerVars,
                   pendingTerm, histVars, requests>>

----------------------------------------------------------------------------
(* end_session *)

\* lines 690-706: 404 when the session hash is missing, else cleanup_session
EndRequest(t, s) ==
    LET tk == [NewTask("end", s) EXCEPT !.found = session[s].exists] IN
    /\ FreeSlot(t)
    /\ running = 0
    /\ IF session[s].exists
       THEN Continue(t, [tk EXCEPT !.pc = "c_entry"], FALSE)
       ELSE Finish(t, tk, "404")
    /\ UNCHANGED <<now, beatVars, logVars,
                   pidOf, others, agent, dbVars, billed, redisSessionVars, workerVars,
                   pendingTerm,
                   histVars>>
    /\ requests < MaxRequests
    /\ requests' = requests + 1

----------------------------------------------------------------------------
(* livekit_webhook *)

API_SECRET == "LIVEKIT_API_SECRET"
OTHER_SECRET == "not the secret"
NoSignature == <<"no header">>

\* hmac.new(key, payload, sha256).hexdigest(): a keyed digest, different for
\* different keys and payloads
Hmac(key, payload) == <<"hmac-sha256", key, payload>>

\* lines 176-184
verify_livekit_webhook(payload, signature) ==
    signature = Hmac(API_SECRET, payload)

WebhookEvents == {"participant_left", "room_finished", "track_published"}
DisconnectEvents == {"participant_left", "room_finished"}

\* the raw body: the event and the room name
Body(event, room_name) == <<event, room_name>>
ReplayedBody == Body("track_published", TOK_SESSION)

\* the X-LiveKit-Signature headers a request with this body may carry
SignatureHeaders(body) ==
    {NoSignature, Hmac(API_SECRET, body), Hmac(OTHER_SECRET, body),
     Hmac(API_SECRET, ReplayedBody)}

\* lines 913-918: the request is answered 401
Rejected(body, x_livekit_signature) ==
    /\ x_livekit_signature # NoSignature
    /\ ~verify_livekit_webhook(body, x_livekit_signature)

\* lines 940-941: the events and rooms that are cleaned up
TriggersCleanup(event, room_name) ==
    /\ event \in DisconnectEvents
    /\ room_name # NoSid
    /\ StartsWith(room_name, SESSION_PREFIX)

\* lines 908-954, up to the call of cleanup_session
WebhookRequest(t, event, room_name, x_livekit_signature) ==
    LET body == Body(event, room_name)
        tk == [NewTask("webhook", room_name) EXCEPT
                  !.found = session[room_name].exists,
                  !.hook = [event |-> event, x_livekit_signature |-> x_livekit_signature]]
    IN
    /\ FreeSlot(t)
    /\ running = 0
    /\ IF Rejected(body, x_livekit_signature)
       THEN Finish(t, tk, "401")
       ELSE IF TriggersCleanup(event, room_name)
       THEN Continue(t, [tk EXCEPT !.pc = "c_entry"], FALSE)
       ELSE Finish(t, tk, "200")
    /\ UNCHANGED <<now, beatVars, logVars,
                   pidOf, others, agent, dbVars, billed, redisSessionVars, workerVars,
                   pendingTerm,
                   histVars>>
    /\ requests < MaxRequests
    /\ requests' = requests + 1

----------------------------------------------------------------------------
(* terminate_session_insufficient_credits *)

\* lines 202-220: the task created by heartbeat starts: status terminated, then cleanup_session
TerminateStart(t, s) ==
    /\ FreeSlot(t)
    /\ running = 0
    /\ pendingTerm[s] > 0
    /\ pendingTerm' = [pendingTerm EXCEPT ![s] = @ - 1]
    /\ session' = [session EXCEPT ![s] = [@ EXCEPT !.exists = TRUE, !.status = "terminated"]]
    /\ Continue(t, [NewTask("terminate", s) EXCEPT !.pc = "c_entry"], FALSE)
    /\ UNCHANGED <<now, beatVars, logVars,
                   pidOf, others, agent, dbVars, billed, config, ready, starting,
                   agentKeys, userMap,
                   workerVars, histVars, requests>>

----------------------------------------------------------------------------
(* spawn_voice_agent (tasks.py) *)

\* lines 141-221: status starting, Popen in a new process group, the pid keys
\* Popen gives the agent a pid that no running process has; pid is process.pid
SpawnLaunch(s, pid) ==
    /\ s \in queue
    /\ spawn[s] = "none"
    /\ ~Alive(s)
    /\ Holders(pid) = {}
    /\ queue' = queue \ {s}
    /\ spawn' = [spawn EXCEPT ![s] = "waiting"]
    /\ proc' = [proc EXCEPT ![s] = "started"]
    /\ pidOf' = [pidOf EXCEPT ![s] = pid]
    /\ session' = [session EXCEPT ![s] =
                      [@ EXCEPT !.exists = TRUE, !.status = "starting", !.userId = TRUE,
                                !.createdAt = now, !.celeryTaskId = TRUE,
                                !.agentPid = pid]]
    /\ starting' = starting \cup {s}
    /\ agentKeys' = [agentKeys EXCEPT ![s] = @ \cup {"pid", "logfile"}]
    /\ UNCHANGED <<now, beatVars, logVars, others, agent, dbVars, billed, config, ready,
                   userMap, retries, revoked, task,
                   running,
                   pendingTerm, response, ended, histVars, requests>>

\* the agents of session s that run: the one the session's last job launched and the
\* ones launched before it
LiveAgents(s) == (IF Alive(s) THEN {pidOf[s]} ELSE {}) \cup others[s]

\* The launch by a job that a worker takes while an agent of the session runs: the
\* job does not look for one (lines 110-163), so Popen starts another process in a
\* group of its own, and the pid keys and agentPid are overwritten with its pid
SpawnBeside(s, pid) ==
    /\ s \in queue
    /\ spawn[s] = "none"
    /\ Alive(s)
    /\ \A o \in Sessions : pid \notin LiveAgents(o)
    /\ queue' = queue \ {s}
    /\ spawn' = [spawn EXCEPT ![s] = "waiting"]
    /\ others' = [others EXCEPT ![s] = @ \cup {pidOf[s]}]
    /\ proc' = [proc EXCEPT ![s] = "started"]
    /\ pidOf' = [pidOf EXCEPT ![s] = pid]
    /\ session' = [session EXCEPT ![s] =
                      [@ EXCEPT !.exists = TRUE, !.status = "starting", !.userId = TRUE,
                                !.createdAt = now, !.celeryTaskId = TRUE,
                                !.agentPid = pid]]
    /\ starting' = starting \cup {s}
    /\ agentKeys' = [agentKeys EXCEPT ![s] = @ \cup {"pid", "logfile"}]
    /\ UNCHANGED <<now, beatVars, logVars, agent, dbVars, billed, config, ready,
                   userMap, retries, revoked, task, running, pendingTerm, response,
                   ended, histVars, requests>>

\* an agent that runs beside the session's last one ends by itself
\* (voice_assistant.py lines 686-778, the end of main)
OtherExit(s, pid) ==
    /\ pid \in others[s]
    /\ others' = [others EXCEPT ![s] = @ \ {pid}]
    /\ UNCHANGED <<now, beatVars, logVars, pidOf, agent, dbVars, billed, redisSessionVars,
                   workerVars, task, running, pendingTerm, response, ended, histVars,
                   requests>>

\* The same launch, command by command, for the runs in which another process acts
\* between the job's Redis commands.
\* lines 141-148: hset status starting, userId, voiceId, createdAt, celeryTaskId, and
\* sadd session:starting
SpawnBegin(s) ==
    /\ s \in queue
    /\ spawn[s] = "none"
    /\ queue' = queue \ {s}
    /\ spawn' = [spawn EXCEPT ![s] = "begun"]
    /\ session' = [session EXCEPT ![s] =
                      [@ EXCEPT !.exists = TRUE, !.status = "starting", !.userId = TRUE,
                                !.createdAt = now, !.celeryTaskId = TRUE]]
    /\ starting' = starting \cup {s}
    /\ UNCHANGED <<now, beatVars, logVars, pidOf, others, agent, dbVars, billed, config,
                   ready,
                   agentKeys, userMap, proc, retries, revoked, task, running,
                   pendingTerm, response, ended, histVars, requests>>

\* lines 163-173: subprocess.Popen with preexec_fn=os.setsid; pid = process.pid
SpawnPopen(s, pid) ==
    /\ spawn[s] = "begun"
    /\ ~Alive(s)
    /\ Holders(pid) = {}
    /\ spawn' = [spawn EXCEPT ![s] = "popened"]
    /\ proc' = [proc EXCEPT ![s] = "started"]
    /\ pidOf' = [pidOf EXCEPT ![s] = pid]
    /\ UNCHANGED <<now, beatVars, logVars, others, agent, dbVars, billed, redisSessionVars,
                   queue, retries, revoked, task, running, pendingTerm, response,
                   ended, histVars, requests>>

\* lines 181-185: agent:{id}:pid, agent:{id}:logfile, hset agentPid; lines 214-221:
\* the log reader thread starts
SpawnRecord(s) ==
    /\ spawn[s] = "popened"
    /\ spawn' = [spawn EXCEPT ![s] = "waiting"]
    /\ session' = [session EXCEPT ![s] =
                      [@ EXCEPT !.exists = TRUE, !.agentPid = pidOf[s]]]
    /\ agentKeys' = [agentKeys EXCEPT ![s] = @ \cup {"pid", "logfile"}]
    /\ UNCHANGED <<now, beatVars, logVars, pidOf, others, agent, dbVars, billed, config,
                   ready,
                   starting, userMap, queue, proc, retries, revoked, task, running,
                   pendingTerm, response, ended, histVars, requests>>

\* main.py line 316: revoke(task_id, terminate=True) reaches the worker while the job
\* runs: the worker process that executes the job is terminated, at whatever command
\* the job is; the agent, in a process group of its own (os.setsid), is not signalled
SpawnTerminated(s) ==
    /\ s \in revoked
    /\ spawn[s] # "none"
    /\ spawn' = [spawn EXCEPT ![s] = "none"]
    /\ UNCHANGED <<now, beatVars, logVars, pidOf, others, agent, dbVars, billed,
                   redisSessionVars,
                   queue, proc, retries, revoked, task, running, pendingTerm, response,
                   ended, histVars, requests>>

\* a ready mapping without the pid
ReadyMapping_NoPid(session_data, pid) ==
    [session_data EXCEPT !.exists = TRUE, !.status = "ready", !.lastActive = now]

\* lines 279-284: hset mapping status ready, agentPid, startupTime, lastActive
ReadyMapping(session_data, pid) ==
    [session_data EXCEPT !.exists = TRUE, !.status = "ready", !.agentPid = pid,
                         !.lastActive = now]

\* lines 239-300: a readiness marker is in agent:{id}:logs: status ready
SpawnReady(s) ==
    /\ spawn[s] = "waiting"
    /\ Alive(s)
    /\ "logs" \in agentKeys[s]
    /\ spawn' = [spawn EXCEPT ![s] = "none"]
    /\ session' = [session EXCEPT ![s] = ReadyMapping(@, pidOf[s])]
    /\ starting' = starting \ {s}
    /\ ready' = ready \cup {s}
    /\ userMap' = [userMap EXCEPT ![UserOf(s)] = s]
    /\ UNCHANGED <<now, beatVars, logVars,
                   pidOf, others, agent, dbVars, billed, config, agentKeys, queue, proc,
                   retries,
                   revoked,
                   task,
                   running, pendingTerm, response, ended, histVars, requests>>

\* lines 268-275: no readiness marker within BOT_STARTUP_TIMEOUT: SIGTERM to the
\* agent's process group, SIGKILL after 2 seconds when it still runs, then the
\* exception that SpawnFailed handles
SpawnTimeout(s) ==
    /\ spawn[s] = "waiting"
    /\ Alive(s)
    /\ "logs" \notin agentKeys[s]
    /\ proc' = [proc EXCEPT ![s] = "dead"]
    /\ UNCHANGED <<now, beatVars, logVars,
                   pidOf, others, agent, dbVars, billed, redisSessionVars, queue, spawn,
                   retries,
                   revoked, task,
                   running, pendingTerm, response, ended, histVars, requests>>

\* str(e) of the exception that ends an attempt: 'Agent process died unexpectedly
\* (exit code: ...)' (line 232) or 'Agent failed to connect within 30s' (line 275)
STARTUP_ERROR == "Agent failed to start"

\* an error mapping that keeps the status
ErrorMapping_KeepStatus(session_data, error_msg) ==
    [session_data EXCEPT !.exists = TRUE, !.error = error_msg, !.lastActive = now]

\* lines 307-311: hset mapping status error, error, lastActive
ErrorMapping(session_data, error_msg) ==
    [session_data EXCEPT !.exists = TRUE, !.status = "error", !.error = error_msg,
                         !.lastActive = now]

\* tasks.py line 50: retry_kwargs = {'max_retries': 3, 'countdown': 5}
max_retries == 3

\* lines 230-237 and 302-320: the agent died before it was ready, or the timeout
\* killed it: status error, and self.retry while retries < max_retries; the retry
\* of a job whose task id cleanup_session has revoked (main.py line 316) is discarded
SpawnFailed(s) ==
    /\ spawn[s] = "waiting"
    /\ ~Alive(s)
    /\ spawn' = [spawn EXCEPT ![s] = "none"]
    /\ session' = [session EXCEPT ![s] = ErrorMapping(@, STARTUP_ERROR)]
    /\ starting' = starting \ {s}
    /\ IF retries[s] < max_retries /\ s \notin revoked
       THEN /\ queue' = queue \cup {s}
            /\ retries' = [retries EXCEPT ![s] = @ + 1]
       ELSE UNCHANGED <<queue, retries>>
    /\ UNCHANGED <<now, beatVars, logVars,
                   pidOf, others, agent, dbVars, billed, config, ready, agentKeys,
                   userMap, proc,
                   revoked,
                   task, running, pendingTerm, response, ended, histVars, requests>>

----------------------------------------------------------------------------
(* the agent (voice_assistant.py) and its log reader (tasks.py) *)

\* the agent logs that it is connected; continuous_log_reader, tasks.py lines 70-82,
\* pushes the line to agent:{id}:logs
AgentConnected(s) ==
    /\ proc[s] = "started"
    /\ proc' = [proc EXCEPT ![s] = "connected"]
    /\ agentKeys' = [agentKeys EXCEPT ![s] = @ \cup {"logs"}]
    /\ UNCHANGED <<now, beatVars, logVars,
                   pidOf, others, agent, dbVars, billed, session, config, ready,
                   starting, userMap,
                   queue,
                   spawn, retries, revoked, task, running, pendingTerm, response, ended,
                   histVars,
                   requests>>

\* on_first_participant_joined, lines 586-600: conversationStartTime
AgentJoined(s) ==
    /\ proc[s] = "connected"
    /\ proc' = [proc EXCEPT ![s] = "joined"]
    /\ session' = [session EXCEPT ![s] =
                      [@ EXCEPT !.exists = TRUE, !.conversationStartTime = now]]
    /\ UNCHANGED <<now, beatVars, logVars,
                   pidOf, others, agent, dbVars, billed, config, ready, starting, agentKeys,
                   userMap, queue,
                   spawn, retries, revoked, task, running, pendingTerm, response, ended,
                   histVars,
                   requests>>

\* on_participant_left / on_disconnected, lines 517-572: task.cancel()
AgentLeft(s) ==
    /\ proc[s] \in {"connected", "joined"}
    /\ proc' = [proc EXCEPT ![s] = "stopping"]
    /\ UNCHANGED <<now, beatVars, logVars,
                   pidOf, others, agent, dbVars, billed, redisSessionVars, queue, spawn,
                   retries,
                   revoked, task,
                   running,
                   pendingTerm, response, ended, histVars, requests>>

\* the three handlers that end the session (lines 517, 544, 554)
DisconnectHandlers == {"on_participant_left", "on_disconnected",
                       "on_participant_disconnected"}

\* a handler that sets the flag only once task.cancel() has returned
BeginCancel_FlagAfter(a, block) ==
    [a EXCEPT !.cancels = @ + 1, !.awaiting = Append(@, block)]

\* lines 533-535 (and 539-541, 549-551, 565-567, 570-572): the flag is set, then
\* task.cancel() is called and awaited
BeginCancel(a, block) ==
    [a EXCEPT !.cleanup_triggered = TRUE, !.cancels = @ + 1,
              !.awaiting = Append(@, block)]

\* the handler's run up to its first await, on the agent's event loop
\* lines 518-541 and 555-572: remaining is len(transport.participants), and
\* unreadable says that reading it raises; lines 545-551: on_disconnected
Handle(a, event, remaining, unreadable) ==
    LET counted == [a EXCEPT !.events = @ + 1] IN
    IF event = "on_disconnected"
    THEN IF ~a.cleanup_triggered THEN BeginCancel(counted, "plain") ELSE counted
    ELSE IF unreadable
         THEN IF ~a.cleanup_triggered THEN BeginCancel(counted, "except") ELSE counted
         ELSE IF remaining = 0 /\ ~a.cleanup_triggered
              THEN BeginCancel(counted, "try")
              ELSE counted

\* LiveKit delivers a disconnect event to the agent, during the conversation or
\* during the shutdown; the first task.cancel() starts the shutdown
DisconnectEvent(s, event, remaining, unreadable) ==
    /\ proc[s] \in {"connected", "joined", "stopping"}
    /\ agent[s].events < MaxEvents
    /\ agent' = [agent EXCEPT ![s] = Handle(@, event, remaining, unreadable)]
    /\ proc' = [proc EXCEPT ![s] = IF agent'[s].cancels > 0 THEN "stopping" ELSE @]
    /\ UNCHANGED <<now, beatVars, logVars, pidOf, others, dbVars, billed,
                   redisSessionVars, queue, spawn, retries, revoked, task, running,
                   pendingTerm, response, ended, histVars, requests>>

\* the i-th waiting handler resumes: task.cancel() has returned or raised.  An
\* exception raised in the try block of lines 525-535 / 559-567 is caught by the
\* except block, which tests the flag again (lines 536-541, 568-572)
CancelReturns(s, i, raises) ==
    LET a == agent[s]
        block == a.awaiting[i]
        rest == [a EXCEPT !.awaiting = SubSeq(@, 1, i - 1) \o SubSeq(@, i + 1, Len(@))]
    IN
    /\ i \in 1..Len(a.awaiting)
    /\ proc[s] = "stopping"
    /\ agent' = [agent EXCEPT ![s] =
                    IF raises /\ block = "try" /\ ~a.cleanup_triggered
                    THEN BeginCancel(rest, "except")
                    ELSE rest]
    /\ UNCHANGED <<now, beatVars, logVars, pidOf, others, dbVars, billed,
                   redisSessionVars, workerVars, task, running, pendingTerm, response,
                   ended, histVars, requests>>

\* heartbeat_task, lines 207-219: the agent has the answer of its heartbeat, here
\* one with status ok (the last request, answered while no other handler runs)
OkAnswer(s) ==
    /\ \A t \in Tasks : task[t].pc = "idle"
    /\ response.kind = "heartbeat"
    /\ response.sid = s
    /\ response.status = "ok"
    /\ agent[s].answered # requests

HeartbeatAccepted(s) ==
    /\ OkAnswer(s)
    /\ agent' = [agent EXCEPT ![s] = [@ EXCEPT !.last_ok = now, !.answered = requests]]
    /\ UNCHANGED <<now, beatVars, logVars, pidOf, others, dbVars, billed,
                   redisSessionVars, workerVars, task, running, pendingTerm, response,
                   ended, histVars, requests>>

\* line 708: math.ceil(duration_seconds / 60)
DurationMinutes(duration_seconds) == (duration_seconds + 59) \div 60

\* the finally block, lines 686-778: the duration of the conversation, then exit
AgentExit(s) ==
    LET start_time == session[s].conversationStartTime IN
    /\ proc[s] = "stopping"
    /\ proc' = [proc EXCEPT ![s] = "dead"]
    /\ session' = IF session[s].exists /\ start_time # -1
                  THEN [session EXCEPT ![s].conversationDuration = now - start_time,
                                       ![s].conversationDurationMinutes =
                                           DurationMinutes(now - start_time)]
                  ELSE session
    /\ UNCHANGED <<now, beatVars, logVars,
                   pidOf, others, agent, dbVars, billed, config, ready, starting, agentKeys,
                   userMap, queue,
                   spawn, retries, revoked, task, running, pendingTerm, response, ended,
                   histVars,
                   requests>>

----------------------------------------------------------------------------
(* the readiness poll of spawn_voice_agent and continuous_log_reader, line by line *)

\* tasks.py line 40
MAX_LOG_ENTRIES == 100

\* a line that contains one of the keywords of line 253, and a line that contains none
MARKER == "Connected to"
OTHER_LINE == "line"

\* lines 68-77: the reader takes the next line of the agent's stdout, writes it to the
\* log file and pushes it to agent:{id}:logs
ReadLine(s, line) ==
    /\ reader[s].pc = "idle"
    /\ reader[s].lines < MaxLines
    /\ logs' = [logs EXCEPT ![s] = Append(@, line)]
    /\ reader' = [reader EXCEPT ![s] = [pc |-> "pushed", lines |-> @.lines + 1,
                                        stdout |-> Append(@.stdout, line)]]
    /\ agentKeys' = [agentKeys EXCEPT ![s] = @ \cup {"logs"}]

\* the agent, not yet connected, writes a line without a readiness keyword
AgentLine(s) ==
    /\ spawn[s] = "waiting"
    /\ proc[s] = "started"
    /\ ReadLine(s, OTHER_LINE)
    /\ UNCHANGED <<now, beatVars, log_check_offset, pidOf, others, agent, dbVars, billed,
                   session, config,
                   ready, starting, userMap, workerVars, task, running, pendingTerm,
                   response, ended, histVars, requests>>

\* the agent is connected and writes the line that says so
AgentMarker(s) ==
    /\ spawn[s] = "waiting"
    /\ proc[s] = "started"
    /\ proc' = [proc EXCEPT ![s] = "connected"]
    /\ ReadLine(s, MARKER)
    /\ UNCHANGED <<now, beatVars, log_check_offset, pidOf, others, agent, dbVars, billed,
                   session, config,
                   ready, starting, userMap, queue, spawn, retries, revoked, task, running,
                   pendingTerm, response, ended, histVars, requests>>

\* a trim that keeps the first -start entries
Ltrim_KeepFirst(list, start) ==
    IF Len(list) <= -start THEN list
    ELSE SubSeq(list, 1, -start)

\* LTRIM key start -1 with a negative start: the last -start entries stay
Ltrim(list, start) ==
    IF Len(list) <= -start THEN list
    ELSE SubSeq(list, Len(list) + start + 1, Len(list))

\* line 78: ltrim(agent:{id}:logs, -MAX_LOG_ENTRIES, -1)
LogTrim(s) ==
    /\ reader[s].pc = "pushed"
    /\ logs' = [logs EXCEPT ![s] = Ltrim(@, -MAX_LOG_ENTRIES)]
    /\ reader' = [reader EXCEPT ![s].pc = "idle"]
    /\ UNCHANGED <<now, beatVars, log_check_offset, pidOf, others, agent, dbVars, billed,
                   redisSessionVars, workerVars, task, running, pendingTerm, response,
                   ended, histVars, requests>>

\* LRANGE key start -1 with a start of 0 or more: the entries from index start on
Lrange(list, start) == SubSeq(list, start + 1, Len(list))

\* line 253: a keyword is in one of the new lines
Connected(new_lines) == \E i \in 1..Len(new_lines) : new_lines[i] = MARKER

\* lines 239-300: one round of the poll that finds new lines: lrange from
\* log_check_offset, the offset moves on by their number, and when one of them has
\* a keyword the session becomes ready
SpawnPoll(s) ==
    LET new_lines == Lrange(logs[s], log_check_offset[s]) IN
    /\ spawn[s] = "waiting"
    /\ Alive(s)
    /\ new_lines # <<>>
    /\ log_check_offset' = [log_check_offset EXCEPT ![s] = @ + Len(new_lines)]
    /\ IF Connected(new_lines)
       THEN /\ spawn' = [spawn EXCEPT ![s] = "none"]
            /\ session' = [session EXCEPT ![s] = ReadyMapping(@, pidOf[s])]
            /\ starting' = starting \ {s}
            /\ ready' = ready \cup {s}
            /\ userMap' = [userMap EXCEPT ![UserOf(s)] = s]
       ELSE UNCHANGED <<spawn, session, starting, ready, userMap>>
    /\ UNCHANGED <<now, beatVars, logs, reader, pidOf, others, agent, dbVars, billed,
                   config, agentKeys,
                   queue, proc, retries, revoked, task, running, pendingTerm, response,
                   ended, histVars, requests>>

\* a round of the poll would find a keyword
MarkerAhead(s) == Connected(Lrange(logs[s], log_check_offset[s]))

\* lines 229 and 268-275: BOT_STARTUP_TIMEOUT has passed and no round of the poll has
\* found a keyword, nor would one now: SIGTERM and SIGKILL to the agent's group
PollTimeout(s) ==
    /\ spawn[s] = "waiting"
    /\ Alive(s)
    /\ ~MarkerAhead(s)
    /\ proc' = [proc EXCEPT ![s] = "dead"]
    /\ UNCHANGED <<now, beatVars, logVars, pidOf, others, agent, dbVars, billed,
                   redisSessionVars,
                   queue, spawn, retries, revoked, task, running, pendingTerm, response,
                   ended, histVars, requests>>

----------------------------------------------------------------------------
(* the periodic tasks of the Beat scheduler (tasks.py) *)

\* session_store.py lines 57-93: the ids of the keys session:* that are hashes and are
\* neither a user mapping, nor a state set, nor a config hash
get_all_session_ids == {s \in Sessions : session[s].exists}

\* the periodic task goes on with the next id of session_ids, or ends
NextId(b) ==
    IF b.ids = {} THEN beat' = [IdleBeat EXCEPT !.dead = b.dead]
    ELSE beat' = [b EXCEPT !.pc = "read"]

\* lines 335-336: session_ids = session_store.get_all_session_ids()
HealthStart ==
    /\ beat.kind = "idle"
    /\ beat' = [IdleBeat EXCEPT !.kind = "health", !.pc = "read",
                                !.ids = get_all_session_ids]
    /\ beat'.ids # {}
    /\ UNCHANGED <<now, logVars, pidOf, others, agent, dbVars, billed, redisSessionVars,
                   workerVars,
                   task, running, pendingTerm, response, ended, histVars, requests>>

\* line 347: status in ['ready', 'active']
Checked(status) == status \in {"ready", "active"}

\* lines 338-352: get_session_data of the next id; the session is checked when its
\* status is ready or active and it has an agentPid
HealthRead ==
    /\ beat.kind = "health"
    /\ beat.pc = "read"
    /\ \E s \in beat.ids :
          LET session_data == session[s]
              b == [beat EXCEPT !.ids = @ \ {s}, !.sid = s, !.session_data = session_data,
                                !.pid = session_data.agentPid]
          IN IF session_data.exists /\ Checked(session_data.status)
                  /\ session_data.agentPid # 0
             THEN beat' = [b EXCEPT !.pc = "probe"]
             ELSE NextId(b)
    /\ UNCHANGED <<now, logVars, pidOf, others, agent, dbVars, billed, redisSessionVars,
                   workerVars,
                   task, running, pendingTerm, response, ended, histVars, requests>>

\* lines 356-363: os.kill(int(pid), 0) finds the process: agent:{id}:health
\* lines 365-371: ProcessLookupError: the process is dead
HealthProbe ==
    /\ beat.kind = "health"
    /\ beat.pc = "probe"
    /\ IF Holders(beat.pid) # {}
       THEN /\ agentKeys' = [agentKeys EXCEPT ![beat.sid] = @ \cup {"health"}]
            /\ NextId(beat)
       ELSE /\ beat' = [beat EXCEPT !.pc = "mark", !.dead = @ \cup {beat.sid}]
            /\ UNCHANGED agentKeys
    /\ UNCHANGED <<now, logVars, pidOf, others, agent, dbVars, billed, session, config,
                   ready, starting,
                   userMap, workerVars, task, running, pendingTerm, response, ended,
                   histVars, requests>>

PROCESS_DIED == "Process died unexpectedly"

\* line 372: hset status error
HealthMark ==
    /\ beat.kind = "health"
    /\ beat.pc = "mark"
    /\ session' = [session EXCEPT ![beat.sid] =
                      [@ EXCEPT !.exists = TRUE, !.status = "error"]]
    /\ beat' = [beat EXCEPT !.pc = "error"]
    /\ UNCHANGED <<now, logVars, pidOf, others, agent, dbVars, billed, config, ready,
                   starting,
                   agentKeys, userMap, workerVars, task, running, pendingTerm, response,
                   ended, histVars, requests>>

\* line 373: hset error 'Process died unexpectedly'
HealthError ==
    /\ beat.kind = "health"
    /\ beat.pc = "error"
    /\ session' = [session EXCEPT ![beat.sid] =
                      [@ EXCEPT !.exists = TRUE, !.error = PROCESS_DIED]]
    /\ beat' = [beat EXCEPT !.pc = "srem"]
    /\ UNCHANGED <<now, logVars, pidOf, others, agent, dbVars, billed, config, ready,
                   starting,
                   agentKeys, userMap, workerVars, task, running, pendingTerm, response,
                   ended, histVars, requests>>

\* line 374: srem session:ready; then the next id, or the pass is complete
HealthSrem ==
    /\ beat.kind = "health"
    /\ beat.pc = "srem"
    /\ ready' = ready \ {beat.sid}
    /\ NextId(beat)
    /\ UNCHANGED <<now, logVars, pidOf, others, agent, dbVars, billed, session, config,
                   starting,
                   agentKeys, userMap, workerVars, task, running, pendingTerm, response,
                   ended, histVars, requests>>

HealthStep ==
    \/ HealthStart \/ HealthRead \/ HealthProbe \/ HealthMark \/ HealthError
    \/ HealthSrem

\* line 396: int(os.getenv('SESSION_TIMEOUT', 14400))
SESSION_TIMEOUT == 14400

\* int(time.time()): seconds since 1970
time_time == BootTime + now

\* line 409: int(session_data.get('lastActive', session_data.get('createdAt', 0)))
last_active(session_data) ==
    IF session_data.lastActive # -1 THEN BootTime + session_data.lastActive
    ELSE IF session_data.createdAt # -1 THEN BootTime + session_data.createdAt
    ELSE 0

\* line 411: now - last_active > timeout
Stale(now_, session_data) == now_ - last_active(session_data) > SESSION_TIMEOUT

\* lines 395-400: now = int(time.time()), session_ids
ReaperStart ==
    /\ beat.kind = "idle"
    /\ beat' = [IdleBeat EXCEPT !.kind = "reaper", !.pc = "read", !.now = time_time,
                                !.ids = get_all_session_ids]
    /\ beat'.ids # {}
    /\ UNCHANGED <<now, logVars, pidOf, others, agent, dbVars, billed, redisSessionVars,
                   workerVars,
                   task, running, pendingTerm, response, ended, histVars, requests>>

\* lines 402-416: get_session_data of the next id; the session is stale when
\* now - last_active > timeout
ReaperRead ==
    /\ beat.kind = "reaper"
    /\ beat.pc = "read"
    /\ \E s \in beat.ids :
          LET session_data == session[s]
              b == [beat EXCEPT !.ids = @ \ {s}, !.sid = s, !.session_data = session_data,
                                !.pid = session_data.agentPid]
          IN IF session_data.exists /\ Stale(beat.now, session_data)
             THEN beat' = [b EXCEPT !.pc = "kill"]
             ELSE NextId(b)
    /\ UNCHANGED <<now, logVars, pidOf, others, agent, dbVars, billed, redisSessionVars,
                   workerVars,
                   task, running, pendingTerm, response, ended, histVars, requests>>

\* lines 417-421: os.killpg(int(pid), SIGTERM) when the hash has an agentPid, and
\* sleep 5 seconds; ProcessLookupError when no process group has that number
ReaperKill ==
    /\ beat.kind = "reaper"
    /\ beat.pc = "kill"
    /\ IF beat.pid # 0 /\ Holders(beat.pid) # {}
       THEN /\ \E s \in Holders(beat.pid) : \E after \in AfterSigterm(proc[s]) :
                  proc' = [proc EXCEPT ![s] = after]
            /\ beat' = [beat EXCEPT !.pc = "force", !.termed = Holders(beat.pid)]
       ELSE /\ beat' = [beat EXCEPT !.pc = "delete"]
            /\ UNCHANGED proc
    /\ UNCHANGED <<now, logVars, pidOf, others, agent, dbVars, billed, redisSessionVars,
                   queue, spawn,
                   retries, revoked, task, running, pendingTerm, response, ended,
                   histVars, requests>>

\* lines 422-426: os.killpg(int(pid), SIGKILL)
ReaperForce ==
    /\ beat.kind = "reaper"
    /\ beat.pc = "force"
    /\ proc' = [s \in Sessions |-> IF s \in Holders(beat.pid) THEN "dead" ELSE proc[s]]
    /\ beat' = [beat EXCEPT !.pc = "delete"]
    /\ UNCHANGED <<now, logVars, pidOf, others, agent, dbVars, billed, redisSessionVars,
                   queue, spawn,
                   retries, revoked, task, running, pendingTerm, response, ended,
                   histVars, requests>>

\* session_store.py lines 493-510: the keys SessionStore.cleanup_session deletes
StoreAgentKeys == {"pid", "logs", "logfile", "health"}

\* lines 441-445: session_store.cleanup_session(session_id, user_id) deletes the
\* session's keys, removes the id from both sets and deletes the user mapping
ReaperDelete ==
    LET s == beat.sid
        user_id == beat.session_data.userId
    IN
    /\ beat.kind = "reaper"
    /\ beat.pc = "delete"
    /\ session' = [session EXCEPT ![s] = NoSession]
    /\ config' = config \ {s}
    /\ agentKeys' = [agentKeys EXCEPT ![s] = @ \ StoreAgentKeys]
    /\ ready' = ready \ {s}
    /\ starting' = starting \ {s}
    /\ userMap' = IF user_id THEN [userMap EXCEPT ![UserOf(s)] = NoSid] ELSE userMap
    /\ NextId(beat)
    /\ UNCHANGED <<now, logVars, pidOf, others, agent, dbVars, billed, workerVars, task,
                   running,
                   pendingTerm, response, ended, histVars, requests>>

ReaperStep ==
    \/ ReaperStart \/ ReaperRead \/ ReaperKill \/ ReaperForce \/ ReaperDelete

\* the hashes Redis has deleted by time t: those whose TTL has run out; in the
\* second in which it runs out the key is either still there or gone
Expired(t) ==
    {gone \in SUBSET {s \in Sessions : session[s].expireAt # -1 /\ t >= session[s].expireAt} :
        \A s \in Sessions : (session[s].expireAt # -1 /\ t > session[s].expireAt) => s \in gone}

\* hours pass, up to the session timeout and past it, while no request handler, no
\* spawn job and no periodic task runs (each of them takes seconds); Redis deletes
\* the session hashes whose TTL runs out
Idle ==
    /\ \A t \in Tasks : task[t].pc = "idle"
    /\ \A s \in Sessions : spawn[s] = "none"
    /\ beat.kind = "idle"
    /\ \E t \in {SESSION_TIMEOUT, SESSION_TIMEOUT + 1} :
          /\ t > now
          /\ now' = t
          /\ \E gone \in Expired(t) :
                session' = [s \in Sessions |->
                               IF s \in gone THEN NoSession ELSE session[s]]
    /\ UNCHANGED <<beatVars, logVars, pidOf, others, agent, dbVars, billed, config,
                   ready, starting, agentKeys, userMap, workerVars, task, running,
                   pendingTerm, response, ended, histVars, requests>>

----------------------------------------------------------------------------
(* The system *)

CreditStep(t) == DeductTransaction(t) \/ DeductMark(t)

StartStep(t) ==
    \/ StartCheckCredits(t) \/ StartBill(t) \/ StartConfig(t) \/ StartEnqueue(t)
    \/ StartStore(t)

\* cleanup_session without reconcile_session: the steps of a cleanup whose session
\* has no conversation duration
ProcessStep(t) ==
    \/ CleanupEntry(t) \/ CleanupKill(t) \/ CleanupProbe(t) \/ CleanupForce(t)
    \/ CleanupRedis(t)
    \/ CleanupSets(t)

CleanupStep(t) ==
    \/ ReconcileRead(t) \/ ReconcileStart(t) \/ ReconcileReturn(t)
    \/ ProcessStep(t)

\* the worker and the agent of session s; the worker takes the job from the queue
\* when the number of its retries is in attempts, and the agent gets a pid of pids
WorkerStep(s, attempts, pids) ==
    \/ (retries[s] \in attempts /\ \E pid \in pids : SpawnLaunch(s, pid))
    \/ SpawnReady(s) \/ SpawnTimeout(s) \/ SpawnFailed(s)
    \/ AgentConnected(s) \/ AgentJoined(s) \/ AgentLeft(s) \/ AgentExit(s)

WebhookStep(t, events, rooms) ==
    \E event \in events, room_name \in rooms :
        \E sig \in SignatureHeaders(Body(event, room_name)) :
            WebhookRequest(t, event, room_name, sig)

Next ==
    \/ Tick
    \/ \E t \in Tasks : CreditStep(t) \/ StartStep(t) \/ HeartbeatReturn(t) \/ CleanupStep(t)
    \/ \E t \in Tasks, s \in Sessions :
          \/ StartRequest(t, s)
          \/ HeartbeatRequest(t, s)
          \/ EndRequest(t, s)
          \/ TerminateStart(t, s)
    \/ \E t \in Tasks : WebhookStep(t, WebhookEvents, Sessions)
    \/ \E s \in Sessions : WorkerStep(s, 0..max_retries, Pids)

Spec == Init /\ [][Next]_vars

----------------------------------------------------------------------------
(* Billing: one session with a correlation token, started, billed by       *)
(* heartbeats, ended by the client or terminated for lack of credits       *)

BillingNext ==
    \/ Tick
    \/ \E t \in Tasks : CreditStep(t) \/ StartStep(t) \/ HeartbeatReturn(t) \/ CleanupStep(t)
    \/ \E t \in Tasks :
          \/ StartRequest(t, TOK_ABC)
          \/ HeartbeatRequest(t, TOK_ABC)
          \/ EndRequest(t, TOK_ABC)
          \/ TerminateStart(t, TOK_ABC)
    \/ WorkerStep(TOK_ABC, {0}, {1})

SpecBilling == Init /\ [][BillingNext]_vars

----------------------------------------------------------------------------
(* Webhooks: a session whose id begins with session_, ended by LiveKit's   *)
(* webhooks (a disconnect event and another event, every signature header) *)

WebhookNext ==
    \/ Tick
    \/ \E t \in Tasks : CreditStep(t) \/ StartStep(t) \/ CleanupStep(t)
    \/ \E t \in Tasks :
          \/ StartRequest(t, TOK_SESSION)
          \/ WebhookStep(t, {"participant_left", "track_published"}, {TOK_SESSION})
    \/ WorkerStep(TOK_SESSION, {0}, {1})

SpecWebhook == Init /\ [][WebhookNext]_vars

----------------------------------------------------------------------------
(* The race of EndSession with a verified participant_left webhook         *)

RaceNext ==
    \/ Tick
    \/ \E t \in Tasks : CreditStep(t) \/ StartStep(t) \/ CleanupStep(t)
    \/ \E t \in Tasks :
          \/ StartRequest(t, TOK_SESSION)
          \/ EndRequest(t, TOK_SESSION)
          \/ WebhookRequest(t, "participant_left", TOK_SESSION,
                            Hmac(API_SECRET, Body("participant_left", TOK_SESSION)))
    \/ WorkerStep(TOK_SESSION, {0}, {1})

SpecRace == Init /\ [][RaceNext]_vars

----------------------------------------------------------------------------
(* A session whose id is a correlation token used verbatim, ended by the   *)
(* client and by LiveKit's webhooks                                        *)

TokenNext ==
    \/ Tick
    \/ \E t \in Tasks : CreditStep(t) \/ StartStep(t) \/ CleanupStep(t)
    \/ \E t \in Tasks :
          \/ StartRequest(t, TOK_ABC)
          \/ EndRequest(t, TOK_ABC)
          \/ WebhookStep(t, WebhookEvents, {TOK_ABC})
    \/ WorkerStep(TOK_ABC, {0}, {1})

SpecToken == Init /\ [][TokenNext]_vars

----------------------------------------------------------------------------
(* The credit service alone: deduct_minute called by any caller, for any   *)
(* session of the student and any minute, up to MaxTasks calls at once     *)

\* a caller (start_session, heartbeat, reconcile_session) calls
\* deduct_minute(s, minute_number)
Found(s, minute_number) ==
    [balance |-> credit_balance[StudentOf(s)], rows |-> transactions[s][minute_number],
     minutes_billed |-> minutes_billed[s], marked |-> <<s, minute_number>> \in billed,
     requests |-> requests + 1, alone |-> \A u \in Tasks : task[u].pc = "idle"]

DeductCall(t, s, minute_number) ==
    /\ FreeSlot(t)
    /\ running = 0
    /\ requests < MaxRequests
    /\ requests' = requests + 1
    /\ LET called == [CallDeduct(NewTask("deduct", s), minute_number)
                         EXCEPT !.before = Found(s, minute_number)]
       IN Continue(t, called, Suspended(called))
    /\ UNCHANGED <<now, beatVars, logVars,
                   pidOf, others, agent, dbVars, billed, redisSessionVars, workerVars,
                   pendingTerm,
                   histVars>>

\* deduct_minute returns its result to the caller
DeductDone(t) ==
    /\ task[t].kind = "deduct"
    /\ task[t].pc = "d_ret"
    /\ Runnable(t)
    /\ Finish(t, task[t], task[t].result)
    /\ UNCHANGED <<now, beatVars, logVars,
                   pidOf, others, agent, dbVars, billed, redisSessionVars, workerVars,
                   pendingTerm,
                   histVars, requests>>

CreditNext ==
    \/ \E t \in Tasks : CreditStep(t) \/ DeductDone(t)
    \/ \E t \in Tasks : DeductRollback(t)
    \/ \E t \in Tasks, s \in Sessions, m \in Minutes : DeductCall(t, s, m)

SpecCredit == Init /\ [][CreditNext]_vars

\* the spawn job with its retries: the session tok_abc is started and ended while
\* the worker runs every attempt of the job; the clock stays at 0, so that no
\* conversation has a duration to reconcile
SpawnNext ==
    \/ \E t \in Tasks : CreditStep(t) \/ StartStep(t) \/ ProcessStep(t)
    \/ \E t \in Tasks :
          \/ StartRequest(t, TOK_ABC)
          \/ EndRequest(t, TOK_ABC)
    \/ WorkerStep(TOK_ABC, 0..max_retries, Pids)

SpecSpawn == Init /\ [][SpawnNext]_vars

\* two sessions at once: both are started, their agents run under pids that the
\* operating system hands out, and either session is ended
IsolationNext ==
    \/ \E t \in Tasks : CreditStep(t) \/ StartStep(t) \/ ProcessStep(t)
    \/ \E t \in Tasks, s \in Sessions :
          \/ StartRequest(t, s)
          \/ EndRequest(t, s)
    \/ \E s \in Sessions : WorkerStep(s, {0}, Pids)

SpecIsolation == Init /\ [][IsolationNext]_vars

\* the health check beside a session that is started and ended and whose agent runs,
\* leaves or is killed
HealthNext ==
    \/ \E t \in Tasks : CreditStep(t) \/ StartStep(t) \/ ProcessStep(t)
    \/ \E t \in Tasks :
          \/ StartRequest(t, TOK_ABC)
          \/ EndRequest(t, TOK_ABC)
    \/ WorkerStep(TOK_ABC, {0}, {1})
    \/ HealthStep

SpecHealth == Init /\ [][HealthNext]_vars

\* the reaper beside a session that is started and whose agent runs, while hours pass
ReaperNext ==
    \/ \E t \in Tasks : CreditStep(t) \/ StartStep(t)
    \/ \E t \in Tasks : StartRequest(t, TOK_ABC)
    \/ WorkerStep(TOK_ABC, {0}, {1})
    \/ ReaperStep
    \/ Idle

SpecReaper == Init /\ [][ReaperNext]_vars

\* one StartSession, whose spawn job runs command by command with all its retries,
\* and the EndSession requests that follow it; the agent's lines reach Redis once
\* the job has started the log reader
OrphanNext ==
    \/ \E t \in Tasks : CreditStep(t) \/ StartStep(t) \/ ProcessStep(t)
    \/ \E t \in Tasks :
          \/ (requests = 0 /\ StartRequest(t, TOK_ABC))
          \/ EndRequest(t, TOK_ABC)
    \/ SpawnBegin(TOK_ABC) \/ SpawnPopen(TOK_ABC, 1) \/ SpawnRecord(TOK_ABC)
    \/ SpawnReady(TOK_ABC) \/ SpawnTimeout(TOK_ABC) \/ SpawnFailed(TOK_ABC)
    \/ SpawnTerminated(TOK_ABC)
    \/ (spawn[TOK_ABC] # "popened" /\ AgentConnected(TOK_ABC))
    \/ AgentJoined(TOK_ABC) \/ AgentLeft(TOK_ABC) \/ AgentExit(TOK_ABC)

SpecOrphan == Init /\ [][OrphanNext]_vars

\* one StartSession and, once it is answered, the first attempt of its spawn job,
\* with the agent's lines, the log reader's pushes and trims and the rounds of the
\* poll one by one
LogsNext ==
    \/ \E t \in Tasks : CreditStep(t) \/ StartStep(t)
    \/ \E t \in Tasks : requests = 0 /\ StartRequest(t, TOK_ABC)
    \/ (retries[TOK_ABC] = 0 /\ response.status = "200" /\ SpawnLaunch(TOK_ABC, 1))
    \/ AgentLine(TOK_ABC) \/ AgentMarker(TOK_ABC) \/ LogTrim(TOK_ABC)
    \/ SpawnPoll(TOK_ABC) \/ PollTimeout(TOK_ABC) \/ SpawnFailed(TOK_ABC)

SpecLogs == Init /\ [][LogsNext]_vars

\* StartSession requests for one correlation token, alone, repeated or at once, with
\* every attempt of the spawn jobs they enqueue and the agents these launch
AgentsNext ==
    \/ \E t \in Tasks : CreditStep(t) \/ StartStep(t)
    \/ \E t \in Tasks : StartRequest(t, TOK_ABC)
    \/ WorkerStep(TOK_ABC, 0..max_retries, Pids)
    \/ \E pid \in Pids : SpawnBeside(TOK_ABC, pid) \/ OtherExit(TOK_ABC, pid)

SpecAgents == Init /\ [][AgentsNext]_vars

\* one session whose agent is started once and gets its disconnect events, any of
\* the three, with and without participants left, while handlers still wait
ShutdownNext ==
    \/ \E t \in Tasks : CreditStep(t) \/ StartStep(t)
    \/ \E t \in Tasks : requests = 0 /\ StartRequest(t, TOK_ABC)
    \/ (retries[TOK_ABC] = 0 /\ SpawnLaunch(TOK_ABC, 1))
    \/ AgentConnected(TOK_ABC) \/ SpawnReady(TOK_ABC) \/ AgentJoined(TOK_ABC)
    \/ \E event \in DisconnectHandlers, remaining \in {0, 1}, unreadable \in BOOLEAN :
          DisconnectEvent(TOK_ABC, event, remaining, unreadable)
    \/ \E i \in 1..MaxEvents, raises \in BOOLEAN : CancelReturns(TOK_ABC, i, raises)
    \/ AgentExit(TOK_ABC)

SpecShutdown == Init /\ [][ShutdownNext]_vars

\* main.py line 149: token.with_ttl(timedelta(hours=2)), the time within which the
\* participant can join the room with the token of the start response
TOKEN_TTL == 7200

\* a long conversation: one session is started, its spawn job runs command by
\* command, the session may be ended, the participant joins while the token is
\* valid, the agent sends heartbeats and gets their answers, hours pass and the
\* reaper runs.  The requests come one after another, and a pass of the reaper
\* (seconds) is over before the next step of anything else
\* no answer waits for the agent and no pass of the reaper is under way
Calm == ~OkAnswer(TOK_ABC) /\ beat.kind = "idle"

\* no request handler runs
Quiet == \A t \in Tasks : task[t].pc = "idle"

StaleNext ==
    \/ \E t \in Tasks : Calm /\ (CreditStep(t) \/ StartStep(t) \/ CleanupStep(t))
    \/ \E t \in Tasks : Calm /\ HeartbeatReturn(t)
    \/ (Calm /\ Quiet /\ requests = 0 /\ StartRequest(1, TOK_ABC))
    \/ (Calm /\ Quiet /\ HeartbeatRequest(1, TOK_ABC))
    \/ (Calm /\ Quiet /\ EndRequest(1, TOK_ABC))
    \/ (Calm /\ SpawnBegin(TOK_ABC))
    \/ (Calm /\ SpawnPopen(TOK_ABC, 1))
    \/ (Calm /\ SpawnRecord(TOK_ABC))
    \/ (Calm /\ SpawnReady(TOK_ABC))
    \/ (Calm /\ spawn[TOK_ABC] # "popened" /\ AgentConnected(TOK_ABC))
    \/ (Calm /\ now <= TOKEN_TTL /\ AgentJoined(TOK_ABC))
    \/ (Calm /\ running = 0 /\ Tick)
    \/ (Calm /\ Idle)
    \/ (~OkAnswer(TOK_ABC) /\ ReaperStep)
    \/ HeartbeatAccepted(TOK_ABC)

SpecStale == Init /\ [][StaleNext]_vars

----------------------------------------------------------------------------
(* Properties of billing (SpecBilling, SpecCredit) *)

Debits(s, m) == transactions[s][m]

\* C1: for every (session, minute) at most one credit_transactions row is
\* inserted (and the balance is decremented at most once), whatever the
\* duplicate or interleaved deduct_minute calls.
C1_AtMostOnceBilling ==
    \A s \in Sessions, m \in Minutes : Debits(s, m) <= 1

\* the handler in slot t returns from cleanup_session at this step
CleanupReturns(t) ==
    /\ InFlight(t)
    /\ task'[t].pc = "idle"
    /\ response'.details.called

\* C2: when cleanup_session(s) returns on any path other than "Session not
\* found", the session hash is gone (a following cleanup_session(s) reports
\* "Session not found") and no agent:s:* key remains.
C2_CleanupFinal ==
    [][\A t \in Tasks :
          (CleanupReturns(t) /\ "Session not found" \notin response'.details.errors)
             => /\ ~session'[task[t].sid].exists
                /\ agentKeys'[task[t].sid] = {}]_vars

\* C3: once reconcile_session(s, T) has returned, either every minute of 1..T
\* has a debit, or the run met insufficient credits, reports failed minutes, and
\* every minute before the first failed one has a debit (the unbilled minutes are
\* a tail).
C3_ReconcileComplete ==
    \A t \in Tasks :
        LET r == task[t].rec
            s == task[t].sid
        IN r.returned =>
              \/ \A m \in 1..r.total_minutes : Debits(s, m) >= 1
              \/ /\ r.insufficient
                 /\ \E k \in r.failed_minutes :
                       /\ \A j \in r.failed_minutes : k <= j
                       /\ \A m \in 1..(k - 1) : Debits(s, m) >= 1

\* C4: simulation_attempts.minutes_billed never decreases.
C4_MinutesBilledMonotone ==
    [][\A s \in Sessions : minutes_billed'[s] >= minutes_billed[s]]_vars

\* no deduct_minute call is between its commit and its return
NoDebitInFlight == \A t \in Tasks : task[t].pc # "d_mark"

\* C5: whenever no deduct_minute call is between its commit and its return, a
\* student's balance is the initial balance minus the number of deduct_minute
\* calls that returned success.
C5_BalanceAccounting ==
    NoDebitInFlight =>
        \A st \in Students : credit_balance[st] = initial_balance[st] - successes[st]

\* C6: a student's credit_balance is never negative.
C6_BalanceNonNegative ==
    \A st \in Students : credit_balance[st] >= 0

\* C6, its case: calls for two sessions of one student are in flight together,
\* the balance was 1: one has debited the last credit, the other was refused.
C6_Witness ==
    \E t, u \in Tasks :
        /\ t # u
        /\ task[t].sid # task[u].sid
        /\ StudentOf(task[t].sid) = StudentOf(task[u].sid)
        /\ initial_balance[StudentOf(task[t].sid)] = 1
        /\ task[t].pc = "d_mark"
        /\ task[u].pc = "d_ret" /\ task[u].result = "insufficient_credits"
        /\ credit_balance[StudentOf(task[t].sid)] = 0

\* C7 as stated: an EndSession for a session that an earlier EndSession has
\* ended is answered with success.
C7_SecondEndSucceeds ==
    (response.kind = "end" /\ response.sid \in ended) => response.status = "200"

\* C7, amended: an EndSession is answered with success and the detail payload of
\* cleanup_session exactly when the session hash exists at its check (so two
\* EndSessions that both pass the check both succeed), and with 404 otherwise.
C7_EndSucceedsIffFound ==
    response.kind = "end" =>
        \/ response.found /\ response.status = "200" /\ response.details.called
        \/ ~response.found /\ response.status = "404" /\ ~response.details.called

\* C7, its case: two EndSessions overlap: one has deleted the session and has been
\* answered with success while the other, which passed the check and read the
\* session hash before the deletion, is still in flight.
C7_Witness ==
    /\ response.kind = "end" /\ response.status = "200"
    /\ response.details.redis_cleaned
    /\ ~session[response.sid].exists
    /\ \E t \in Tasks :
          /\ task[t].kind = "end" /\ InFlight(t)
          /\ task[t].sid = response.sid /\ task[t].found
          /\ task[t].session_data.exists

----------------------------------------------------------------------------
(* Properties of the webhook (SpecRace, SpecWebhook, SpecToken) *)

\* C8: of an EndSession and a participant_left webhook of one session that are
\* in flight together, at most one runs reconcile_session.
C8_OneReconciliation ==
    \A t, u \in Tasks :
        (/\ task[t].kind = "end" /\ task[u].kind = "webhook"
         /\ task[t].sid = task[u].sid)
            => ~(task[t].rec.called /\ task[u].rec.called)

\* the signature header of the request that was answered is the HMAC of its body
VerifiedResponse ==
    verify_livekit_webhook(Body(response.hook.event, response.sid),
                           response.hook.x_livekit_signature)

\* C9: a webhook request whose signature is not verified leaves the session's
\* state as it is: no cleanup_session run for it deletes the session's keys.
C9_UnverifiedLeavesState ==
    (response.kind = "webhook" /\ ~VerifiedResponse)
        => ~response.details.redis_cleaned

\* C10: a verified participant_left or room_finished webhook whose room is an
\* existing session has run cleanup_session when it is answered.
C10_DisconnectCleansUp ==
    (/\ response.kind = "webhook" /\ VerifiedResponse
     /\ response.hook.event \in DisconnectEvents
     /\ response.found)
        => response.details.called


\* C11: in every reachable state, every id in the set session:ready has an existing
\* session:{id} hash
C11_ReadyHasSession ==
    \A s \in Sessions : s \in ready => session[s].exists


\* what a StartSession call for s has left behind
StartLeft(s) ==
    [debit |-> Debits(s, 0), session |-> session[s].exists, config |-> s \in config,
     job |-> s \in queue \/ spawn[s] # "none" \/ proc[s] # "none"]

\* C12: StartSession is all-or-nothing: the first StartSession call for a session,
\* when deduct_minute did not itself report an error, either returns a token having
\* debited one credit, stored Session and SessionConfig
\* and enqueued one spawn job, or returns an error having left no debit, no Session,
\* no SessionConfig and no spawn job for the session
C12_StartAllOrNothing ==
    [][\A t \in Tasks, s \in Sessions :
          (task[t].kind = "start" /\ task[t].sid = s /\ task'[t].pc = "idle"
              /\ requests = 1 /\ task[t].result # "error")
             => IF response'.status = "200"
                THEN StartLeft(s)' = [debit |-> 1, session |-> TRUE, config |-> TRUE,
                                      job |-> TRUE]
                ELSE StartLeft(s)' = [debit |-> 0, session |-> FALSE, config |-> FALSE,
                                      job |-> FALSE]]_vars


\* the stores a StartSession call may write to
StartStores == <<credit_balance, transactions, minutes_billed, session, config, queue>>

\* C13: StartSession for a session whose student has creditBalance 0 returns 402,
\* writes no credit_transactions row, leaves the balance and minutesBilled unchanged,
\* creates no Session or SessionConfig record and enqueues no spawn job
C13_InsufficientStart ==
    [][\A t \in Tasks, s \in Sessions :
          /\ (task[t].pc = "idle" /\ task'[t].kind = "start" /\ task'[t].sid = s)
                => UNCHANGED StartStores
          /\ (task[t].pc = "ss_credit" /\ task[t].sid = s /\ task'[t] # task[t]
                  /\ credit_balance[StudentOf(s)] = 0)
                => (~task'[t].has_credits /\ UNCHANGED StartStores)
          /\ (task[t].pc = "ss_bill" /\ task[t].sid = s /\ task'[t] # task[t]
                  /\ ~task[t].has_credits)
                => /\ task'[t].pc = "idle"
                   /\ response'.kind = "start" /\ response'.sid = s
                   /\ response'.status = "402"
                   /\ UNCHANGED StartStores]_vars

\* a StartSession was answered 402 for a student whose balance is 0 and who has
\* no debit for the session
C13_Witness ==
    \E s \in Sessions :
        /\ response.kind = "start" /\ response.sid = s /\ response.status = "402"
        /\ credit_balance[StudentOf(s)] = 0
        /\ \A m \in Minutes : Debits(s, m) = 0
        /\ ~session[s].exists /\ s \notin config /\ s \notin queue


\* C14: minute 0 is billed before the session exists: in every reachable state a
\* Session record or a queued or running spawn job for s exists only if a minute-0
\* debit for s has been committed
C14_BilledBeforeSession ==
    \A s \in Sessions :
        (session[s].exists \/ s \in queue \/ spawn[s] # "none") => Debits(s, 0) >= 1

\* the spawn job of a billed session is running and its Session record exists
C14_Witness ==
    \E s \in Sessions :
        /\ session[s].exists /\ spawn[s] = "waiting"
        /\ Debits(s, 0) = 1


\* C15: a heartbeat at elapsed seconds e of a session with conversationStartTime set
\* bills nothing and returns ok when e < 60, and otherwise calls deduct_minute for
\* exactly minute floor(e / 60); the call keeps that minute and a debit it writes is
\* a debit of that minute
C15_HeartbeatMinute ==
    [][\A s \in Sessions :
          LET start_time == session[s].conversationStartTime
              e == now - start_time
          IN
          /\ (session[s].exists /\ start_time # -1 /\ requests' = requests + 1)
                => /\ (task' = task /\ response'.kind = "heartbeat" /\ response'.sid = s)
                         => (e < 60 /\ response'.status = "ok" /\ UNCHANGED dbVars)
                   /\ \A t \in Tasks :
                         (task[t].pc = "idle" /\ task'[t].kind = "heartbeat"
                             /\ task'[t].sid = s)
                            => /\ e >= 60
                               /\ 60 * task'[t].minute_number <= e
                               /\ e < 60 * (task'[t].minute_number + 1)
                               /\ UNCHANGED dbVars
          /\ \A t \in Tasks :
                (task[t].kind = "heartbeat" /\ task[t].sid = s /\ task'[t] # task[t])
                   => /\ task'[t].kind = "heartbeat"
                            => task'[t].minute_number = task[t].minute_number
                      /\ transactions' # transactions
                            => transactions' =
                                  [transactions EXCEPT ![s][task[t].minute_number] = @ + 1]
      ]_vars

\* a heartbeat before 60 seconds was answered ok without a debit of any minute
\* after 0, and a later heartbeat, at 60 seconds, is in flight for minute 1
C15_Witness ==
    \E s \in Sessions, t \in Tasks :
        /\ response.kind = "heartbeat" /\ response.sid = s /\ response.status = "ok"
        /\ \A m \in Minutes \ {0} : Debits(s, m) = 0
        /\ task[t].kind = "heartbeat" /\ task[t].sid = s /\ task[t].pc = "d_tx"
        /\ task[t].minute_number = 1
        /\ session[s].conversationStartTime = 0 /\ now = 60


\* C16: a heartbeat returns status stop exactly when deduct_minute for the current
\* minute returned insufficient_credits; that call of deduct_minute wrote no debit,
\* and a termination task for the session is started; in every other case no
\* termination task is started
C16_StopIffInsufficient ==
    [][\A s \in Sessions :
          /\ \A t \in Tasks :
                (task[t].kind = "heartbeat" /\ task[t].sid = s /\ task'[t] # task[t])
                   => /\ task'[t].pc = "idle"
                            => /\ response'.kind = "heartbeat" /\ response'.sid = s
                               /\ response'.status = "stop"
                                     <=> task[t].result = "insufficient_credits"
                               /\ pendingTerm'[s] =
                                     IF response'.status = "stop" THEN pendingTerm[s] + 1
                                     ELSE pendingTerm[s]
                      /\ task'[t].pc # "idle" => pendingTerm'[s] = pendingTerm[s]
                      /\ (task[t].pc = "d_tx" /\ task'[t].result = "insufficient_credits")
                            => UNCHANGED dbVars
          /\ (task' = task /\ requests' = requests + 1 /\ response'.kind = "heartbeat"
                  /\ response'.sid = s)
                => (response'.status # "stop" /\ pendingTerm'[s] = pendingTerm[s])
          /\ pendingTerm'[s] > pendingTerm[s]
                => \E t \in Tasks : /\ task[t].kind = "heartbeat" /\ task[t].sid = s
                                    /\ task[t].result = "insufficient_credits"
                                    /\ task'[t].pc = "idle"
      ]_vars

\* a heartbeat was answered stop: the balance is 0, the minute it asked for has no
\* debit, and the termination task of the session is pending
C16_Witness ==
    \E s \in Sessions :
        /\ response.kind = "heartbeat" /\ response.sid = s /\ response.status = "stop"
        /\ credit_balance[StudentOf(s)] = 0
        /\ pendingTerm[s] = 1
        /\ Debits(s, 1) = 0


\* C17: mid-call exhaustion: when the termination task started by a heartbeat's stop
\* returns and the agent has exited, the cleanup has removed the Session record
\* session:{id} and the id's memberships in session:ready and session:starting
C17_TerminationCleansUp ==
    [][\A t \in Tasks, s \in Sessions :
          (task[t].kind = "terminate" /\ task[t].sid = s /\ task'[t].pc = "idle"
              /\ proc[s] = "dead")
             => /\ ~session'[s].exists
                /\ s \notin ready'
                /\ s \notin starting']_vars


\* C18: within one session the status field never changes from error or ready back
\* to starting, under any interleaving of StartSession, spawn attempts and retries
\* and cleanup
C18_NoBackToStarting ==
    [][\A s \in Sessions :
          session[s].status \in {"error", "ready"} => session'[s].status # "starting"]_vars


\* C19: in every reachable state, a Session whose status is ready or active has
\* agentPid set in its record
C19_ReadyHasPid ==
    \A s \in Sessions :
        session[s].status \in {"ready", "active"} => session[s].agentPid \in Pids

\* the spawn job has marked the session ready while its agent runs
C19_Witness ==
    \E s \in Sessions :
        /\ session[s].exists /\ session[s].status = "ready" /\ session[s].agentPid = pidOf[s]
        /\ s \in ready /\ Alive(s) /\ spawn[s] = "none"


\* C20: session isolation: the signals that the cleanup of session a sends reach
\* only a's agent; the agent process of every other session b stays as it was,
\* also when a's recorded pid has already exited
C20_Isolation ==
    [][\A t \in Tasks, a \in Sessions, b \in Sessions :
          (task[t].sid = a /\ task[t].pc \in {"c_sleep3", "c_sleep5"}
              /\ task'[t] # task[t] /\ b # a)
             => proc'[b] = proc[b]]_vars


\* C21: when a pass of health_check_agents completes, every session that the pass
\* read with status ready or active and whose agentPid named no process when the
\* pass probed it, and that has not been deleted since, has status error with the
\* error 'Process died unexpectedly' and is not a member of session:ready.
C21_CrashDemotion ==
    [][(beat.kind = "health" /\ beat'.kind = "idle")
          => \A s \in beat'.dead :
                session'[s].exists
                    => /\ session'[s].status = "error"
                       /\ session'[s].error = PROCESS_DIED
                       /\ s \notin ready']_vars


\* the reaper deletes the records of session s or signals its agent in this step
Reaps(s) ==
    /\ beat.kind = "reaper"
    /\ beat.sid = s
    /\ \/ session[s].exists /\ ~session'[s].exists
       \/ Alive(s) /\ proc'[s] # proc[s] /\ beat' # beat

\* the time the session hash records as its last activity, else as its creation
Recorded(s) ==
    IF session[s].lastActive # -1 THEN session[s].lastActive ELSE session[s].createdAt

\* C22: the reaper deletes a session's records or signals its agent only when the
\* session's lastActive (its createdAt when it has none) is more than SESSION_TIMEOUT
\* seconds old; a session created within the last SESSION_TIMEOUT seconds, also one
\* just admitted in status starting, is left as it is.
C22_ReapsOnlyStale ==
    [][\A s \in Sessions :
          Reaps(s) => /\ Recorded(s) # -1
                      /\ now - Recorded(s) > SESSION_TIMEOUT]_vars


\* an agent of session s can still be launched by the spawn job that is there: the
\* job is queued, or it runs and has not launched its agent yet, or it will retry
LaunchPending(s) ==
    \/ s \in queue
    \/ spawn[s] = "begun"
    \/ spawn[s] \in {"popened", "waiting"} /\ retries[s] < max_retries /\ s \notin revoked

\* C23: when cleanup_session(s) returns after it found the session, no agent process
\* of session s is alive and no spawn job of s is left that launches one afterwards,
\* also when the cleanup ran while the job was queued or in flight without a
\* recorded pid.
C23_NoAgentOutlivesCleanup ==
    [][\A t \in Tasks, s \in Sessions :
          (CleanupReturns(t) /\ task[t].sid = s
              /\ "Session not found" \notin response'.details.errors)
             => /\ ~Alive(s)'
                /\ ~LaunchPending(s)']_vars


\* the heartbeat handler answers a heartbeat of session s in this step: at once
\* (minute 0, missing session, or no conversation start), or after the debit
HeartbeatAnswers(s) ==
    /\ response'.kind = "heartbeat"
    /\ response'.sid = s
    /\ \/ requests' # requests /\ task' = task
       \/ \E t \in Tasks : /\ task[t].kind = "heartbeat"
                            /\ task[t].sid = s
                            /\ task'[t].pc = "idle"

\* C24: when a heartbeat for a session whose status is ready is accepted (answered
\* ok), the session's status is active.
C24_HeartbeatActivates ==
    [][\A s \in Sessions :
          (HeartbeatAnswers(s) /\ response'.status = "ok" /\ session[s].status = "ready")
             => session'[s].status = "active"]_vars


\* C25: start_session writes the session hash before the spawn job is enqueued: when
\* it writes the hash, the job of that start is neither queued nor taken by a worker,
\* and the hash holds no status ready or error that the job has written.
C25_StoreBeforeEnqueue ==
    [][\A t \in Tasks, s \in Sessions :
          (task[t].pc = "ss_store" /\ task[t].sid = s /\ session'[s] # session[s])
             => /\ s \notin queue
                /\ spawn[s] = "none"
                /\ session[s].status \notin {"ready", "error"}]_vars


\* C26: when a call of deduct_minute that ran alone returns error, the student's
\* balance, the debit rows of that session and minute, minutes_billed and the
\* idempotency key of that session and minute are as the call found them.
C26_ErrorChangesNothing ==
    [][\A t \in Tasks, s \in Sessions :
          (task[t].kind = "deduct" /\ task[t].sid = s /\ task[t].pc = "d_ret"
              /\ task'[t].pc = "idle" /\ task[t].result = "error"
              /\ task[t].before.alone /\ task[t].before.requests = requests)
             => LET m == task[t].minute_number
                    before == task[t].before
                IN /\ credit_balance'[StudentOf(s)] = before.balance
                   /\ transactions'[s][m] = before.rows
                   /\ minutes_billed'[s] = before.minutes_billed
                   /\ (<<s, m>> \in billed') = before.marked]_vars


\* C27: in the loop of reconcile_session over the minutes last_billed + 1 ..
\* total_minutes, success and already_billed count the minute as billed; an
\* insufficient_credits result ends the loop with that minute and every minute after
\* it up to total_minutes in failed_minutes; any other result records that minute
\* alone as failed and the loop goes on with the next minute.
C27_ReconcileLoop ==
    [][\A t \in Tasks :
          (task[t].kind \in {"end", "webhook", "terminate"} /\ task[t].pc = "d_ret"
              /\ task'[t] # task[t])
             => LET r == task[t].rec
                    after == task'[t].rec
                    result == task[t].result
                IN /\ result \in {"success", "already_billed"}
                        => /\ after.minutes_billed_now = r.minutes_billed_now + 1
                           /\ after.failed_minutes = r.failed_minutes
                   /\ result = "insufficient_credits"
                        => /\ after.returned
                           /\ after.minutes_billed_now = r.minutes_billed_now
                           /\ after.failed_minutes
                                 = r.failed_minutes \cup (r.minute..r.total_minutes)
                   /\ result = "error"
                        => /\ after.minutes_billed_now = r.minutes_billed_now
                           /\ after.failed_minutes = r.failed_minutes \cup {r.minute}
                           /\ after.minute = r.minute + 1]_vars


\* C28: the spawn job gives up on a live agent (readiness timeout) only when the
\* agent has not written a readiness line: once the agent has written one, the job
\* marks the session ready, however many lines came before it and however the
\* reader's pushes and trims interleave with the rounds of the poll.
C28_MarkerMakesReady ==
    [][\A s \in Sessions :
          (spawn[s] = "waiting" /\ Alive(s) /\ ~Alive(s)') => proc[s] # "connected"]_vars


\* the spawn job of session s ends in this step with a failure and no retry left
FailsForGood(s) ==
    /\ spawn[s] = "waiting"
    /\ spawn'[s] = "none"
    /\ ~Alive(s)
    /\ retries[s] = max_retries

JobOver(s) ==
    /\ s \notin queue
    /\ spawn[s] = "none"
    /\ \A t \in Tasks : task[t].pc = "idle"

\* C30: the spawn job makes at most 1 + max_retries attempts, and when it is over
\* (nothing is left that would change the session) the session is not in status
\* starting and its id is not in session:starting.
C30_JobEnds ==
    \A s \in Sessions :
        /\ retries[s] <= max_retries
        /\ JobOver(s) => /\ session[s].status # "starting"
                          /\ s \notin starting

\* C31: in every reachable state at most one agent process launched for a session
\* is alive, across the retries of the spawn job and across repeated or concurrent
\* StartSession requests with the same correlation token.
C31_OneLiveAgent ==
    \A s \in Sessions : Cardinality(LiveAgents(s)) <= 1

\* list a is the end of list b
IsSuffix(a, b) ==
    /\ Len(a) <= Len(b)
    /\ a = SubSeq(b, Len(b) - Len(a) + 1, Len(b))

C33_TermBeforeKill ==
    [][/\ \A t \in Tasks :
             CleanupForce(t) => Holders(task[t].pid) \subseteq task[t].termed
       /\ ReaperForce => Holders(beat.pid) \subseteq beat.termed]_vars

\* C34: however many disconnect events (on_participant_left, on_disconnected,
\* on_participant_disconnected) fire, and in whatever order, the agent calls
\* task.cancel() at most once.
C34_SingleShot ==
    \A s \in Sessions : agent[s].cancels <= 1

\* C34 witness: every disconnect event of the run has been delivered, one handler
\* has called task.cancel(), and no handler waits any more
C34_Witness ==
    \E s \in Sessions :
        /\ agent[s].events = MaxEvents
        /\ agent[s].cancels = 1
        /\ agent[s].awaiting = <<>>

\* a step of a spawn job after its first write, of a health check pass after its
\* read, or the terminator's first write: each of them follows a moment at which
\* session:{s} was there
LaterWrite(s) ==
    \/ SpawnRecord(s) \/ SpawnReady(s) \/ SpawnFailed(s) \/ SpawnPoll(s)
    \/ (beat.sid = s /\ (HealthMark \/ HealthError))
    \/ \E t \in Tasks : TerminateStart(t, s)

\* C37: once cleanup has deleted session:{id}, no later step of a spawn job in
\* flight, of a health check pass or of the insufficient-credits terminator creates
\* a session:{id} hash again: none of these steps takes the hash from missing to
\* existing.
C37_NoResurrection ==
    [][\A s \in Sessions :
          (~session[s].exists /\ session'[s].exists) => ~LaterWrite(s)]_vars

\* C35: the reaper never cleans up (deletes the records of, or signals the agent of)
\* a session for which a heartbeat was answered with status ok within the last
\* SESSION_TIMEOUT seconds, however long ago the session became ready.
C35_HeartbeatKeepsAlive ==
    [][\A s \in Sessions :
          Reaps(s) => ~(/\ agent[s].last_ok # -1
                        /\ now - agent[s].last_ok <= SESSION_TIMEOUT)]_vars

----------------------------------------------------------------------------
(* One conversation: a single StartSession, then heartbeats, the end by the  *)
(* client or the termination for lack of credits                            *)

\* heartbeat_task awaits the answer of its post before it sleeps and posts again
HeartbeatPending == \E t \in Tasks : task[t].pc # "idle" /\ task[t].kind = "heartbeat"

ConversationNext ==
    \/ Tick
    \/ \E t \in Tasks : CreditStep(t) \/ StartStep(t) \/ HeartbeatReturn(t) \/ CleanupStep(t)
    \/ (requests = 0 /\ StartRequest(1, TOK_ABC))
    \/ \E t \in Tasks : ~HeartbeatPending /\ HeartbeatRequest(t, TOK_ABC)
    \/ \E t \in Tasks : EndRequest(t, TOK_ABC)
    \/ \E t \in Tasks : TerminateStart(t, TOK_ABC)
    \/ WorkerStep(TOK_ABC, {0}, {1})

SpecConversation == Init /\ [][ConversationNext]_vars

\* the credits debited for session s: its credit_transactions rows
RECURSIVE RowsUpTo(_, _)
RowsUpTo(s, m) == IF m < 0 THEN 0 ELSE transactions[s][m] + RowsUpTo(s, m - 1)

Credits(s) == RowsUpTo(s, MaxMinute + 1)

\* C36: no over-billing: once the agent has recorded that the conversation lasted
\* D seconds, the credits debited for the session by StartSession, heartbeats and
\* the reconciliation at teardown are at most floor(D/60) + 1, the number of
\* minutes started
C36_NoOverBilling ==
    \A s \in Sessions :
        session[s].conversationDuration # -1
            => Credits(s) <= (session[s].conversationDuration \div 60) + 1

----------------------------------------------------------------------------
\* the handler in slot t deletes the Redis keys of its session in this step
DeletesKeys(t) ==
    /\ task[t].pc \in {"c_redis", "c_srem"}
    /\ task'[t].pc # task[t].pc

\* every Redis key of session b is left as it is: its hash, its config, its agent
\* keys, its membership of the two phase sets and a session:user:{user} that names it
KeysKept(b) ==
    /\ session'[b] = session[b]
    /\ (b \in config') = (b \in config)
    /\ agentKeys'[b] = agentKeys[b]
    /\ (b \in ready') = (b \in ready)
    /\ (b \in starting') = (b \in starting)
    /\ \A u \in Users : userMap[u] = b => userMap'[u] = b

\* C38: the cleanup of session A deletes only A's keys: every key of any other
\* session B stays unchanged, also session:user:{user} when it points at the newer
\* session B of the same user
C38_CleanupFrame ==
    [][\A t \in Tasks, b \in Sessions :
          (DeletesKeys(t) /\ task[t].sid # b) => KeysKept(b)]_vars

----------------------------------------------------------------------------
\* C39: the phase sets agree with the status: every member of session:ready has
\* status ready and every member of session:starting has status starting
C39_PhaseSetsAgree ==
    /\ \A s \in ready : session[s].status = "ready"
    /\ \A s \in starting : session[s].status = "starting"

----------------------------------------------------------------------------
\* the call in slot t leaves its transaction without a commit in this step: the
\* balance does not cover the minute, or the transaction rolls back
LeavesWithoutCommit(t) ==
    /\ task[t].pc = "d_tx"
    /\ task'[t].pc = "d_ret"

\* C40: marker implies debit: whenever the idempotency key of a session and minute
\* exists, a committed credit_transactions row of that session and minute exists;
\* and the step in which a call ends its transaction with insufficient credits or
\* a rollback sets no idempotency key
C40_MarkerImpliesDebit ==
    /\ [](\A sm \in billed : transactions[sm[1]][sm[2]] >= 1)
    /\ [][\A t \in Tasks : LeavesWithoutCommit(t) => billed' = billed]_vars

\* C40: a call for one minute has left its transaction with insufficient credits
\* and that minute has no idempotency key, while another minute has its key
C40_Witness ==
    \E t \in Tasks :
        /\ task[t].pc = "d_ret"
        /\ task[t].result = "insufficient_credits"
        /\ <<task[t].sid, task[t].minute_number>> \notin billed
        /\ transactions[task[t].sid][task[t].minute_number] = 0
        /\ billed # {}

====
